---- MODULE Spec2Model ----
(***************************************************************************)
(* A model of the TabScript transpiler's State (src/src/state.ts): the      *)
(* input scanner with its INDENT/DEDENT queue, the output token stream,     *)
(* snapshots, and the parser methods of src/src/parser.ts built on them.    *)
(*                                                                          *)
(* Input positions are 0-based as in the source; inData[p + 1] is the       *)
(* character at offset p.  Strings are sequences of one-character strings.  *)
(***************************************************************************)
EXTENDS Integers, Sequences, FiniteSets, TLC

\* ------------------------------------------------------------------ bounds

\* Longest input text the scanner is run on.
MaxLen == 3
\* Number of calls the driver makes on one State.
MaxCalls == 4
\* Number of calls the snapshot driver makes on one State.
MaxSnapCalls == 5
\* Number of calls the group driver makes on one State.
MaxGroupCalls == 3

\* ------------------------------------------------------------ JS encodings

\* `undefined` for outTargetPos (number | undefined); offsets are >= 0.
Undefined == 0 - 1
\* Result of a match attempt that found nothing.
NoMatch == 0 - 1

\* Characters the input texts are drawn from.
Alphabet == {"a", "_", " ", "\t", "\n", ";"}

RECURSIVE SeqsUpTo(_, _)
SeqsUpTo(S, n) ==
    IF n = 0 THEN {<<>>}
    ELSE LET shorter == SeqsUpTo(S, n - 1)
         IN  shorter \cup {Append(q, c) : q \in {x \in shorter : Len(x) = n - 1}, c \in S}

Inputs == SeqsUpTo(Alphabet, MaxLen)

\* --------------------------------------------------------------- variables

VARIABLES
    inData,             \* State.inData: the input text
    options,            \* the Options: js, recover, and whether loadPlugin and
                        \* transformImport are set
    inPos,              \* State.inPos
    indentLevel,        \* State.indentLevel
    indentsPending,     \* State.indentsPending: sequence of "i" / "d"
    inLastNewlinePos,   \* State.inLastNewlinePos
    outTokens,          \* State.outTokens
    outTargetPos,       \* State.outTargetPos, Undefined when unset
    inPosLineCache,     \* State.inPosLineCache: the line after every
                        \* CACHE_INTERVAL-th offset that getLineCol() passed
    inPosColCache,      \* State.inPosColCache: the column there
    matchOptions,       \* State.matchOptions: the expected-set
    errors,             \* State.errors: the recorded ParseErrors
    snaps,              \* the live Snapshot closures, by handle
    snapAt,             \* per handle: the State when the snapshot was taken, and
                        \* whether only scanner and emit calls ran since
    op,                 \* name of the last call made on the State
    args,               \* its pattern arguments
    ret,                \* what it returned
    pre,                \* the State's fields just before it
    raised,             \* how the call ended before a catch clause saw it
    calls               \* number of calls made so far

vars == <<inData, options, inPos, indentLevel, indentsPending, inLastNewlinePos,
          outTokens, outTargetPos, inPosLineCache, inPosColCache, matchOptions, errors,
          snaps, snapAt,
          op, args, ret, pre, raised, calls>>

\* ---------------------------------------------------------------- patterns

\* A string literal given to read().
Lit(cs) == [re |-> FALSE, t |-> cs]
\* A sticky RegExp made by pattern(), identified by its display name.
Re(name) == [re |-> TRUE, t |-> <<name>>]

KW_A == Lit(<<"a">>)
SEMI == Lit(<<";">>)
EMPTY == Lit(<<>>)
IDENTIFIER == Re("identifier")
\* const STRING (STRING is a TLA+ built-in)
STRING_RE == Re("string")
NUMBER == Re("number")
OPERATOR == Re("bin-op")
WITHIN_BACKTICK_STRING == Re("template")
EXPRESSION_PREFIX == Re("unary-op")
REGEXP == Re("regexp")
INTEGER == Re("integer")
\* const ANYTHING = /[\s\S]/y of recoverErrors
ANYTHING == Re("anything")

LowerCase == {"a","b","c","d","e","f","g","h","i","j","k","l","m",
              "n","o","p","q","r","s","t","u","v","w","x","y","z"}
UpperCase == {"A","B","C","D","E","F","G","H","I","J","K","L","M",
              "N","O","P","Q","R","S","T","U","V","W","X","Y","Z"}
Digits == {"0","1","2","3","4","5","6","7","8","9"}

\* const ALPHA_NUM = /^[a-zA-Z0-9]+$/ applied to a single character
ALPHA_NUM(c) == c \in LowerCase \cup UpperCase \cup Digits

\* Character at 0-based offset p, "" past the end (inData.substr(p, 1)).
CharAt(p) == IF p >= 0 /\ p < Len(inData) THEN inData[p + 1] ELSE ""

RECURSIVE SkipWhile(_, _)
SkipWhile(p, S) == IF CharAt(p) \in S THEN SkipWhile(p + 1, S) ELSE p

RECURSIVE SkipToEol(_)
SkipToEol(p) == IF p < Len(inData) /\ CharAt(p) \notin {"\n", "\r"} THEN SkipToEol(p + 1) ELSE p

\* const WHITESPACE = /[ \t\r]*(?:#.*)?/y: the offset after the match at p.
WHITESPACE(p) ==
    LET q == SkipWhile(p, {" ", "\t", "\r"})
    IN  IF CharAt(q) = "#" THEN SkipToEol(q + 1) ELSE q

\* inData.substr(p, Len(cs)) === cs
RECURSIVE StartsWith(_, _, _)
StartsWith(p, cs, k) ==
    IF k > Len(cs) THEN TRUE
    ELSE CharAt(p + k - 1) = cs[k] /\ StartsWith(p, cs, k + 1)

\* The backtick character (one character of the input, as the others are).
Backtick == "BACKTICK"

\* \w of a RegExp, and what `.` does not match.
WordChars == LowerCase \cup UpperCase \cup Digits \cup {"_"}
LineEnds == {"", "\n", "\r"}

\* A keyword alternative `cs\b` of a RegExp: offset after it, NoMatch otherwise.
WordAt(p, cs) ==
    IF StartsWith(p, cs, 1) /\ CharAt(p + Len(cs)) \notin WordChars THEN p + Len(cs) ELSE NoMatch

\* The first alternative of a RegExp that matches at p; alts holds, per
\* alternative, the text and whether `\b` follows it.
RECURSIVE FirstAlt(_, _, _)
FirstAlt(p, alts, k) ==
    IF k > Len(alts) THEN NoMatch
    ELSE LET cs == alts[k].t
             hit == IF alts[k].b THEN WordAt(p, cs) # NoMatch ELSE StartsWith(p, cs, 1)
         IN  IF hit THEN Len(cs) ELSE FirstAlt(p, alts, k + 1)

\* const STRING: after the opening quote q, plain or backslash-escaped characters
\* other than line ends, lazily, up to the next q; the offset after that q.
RECURSIVE StringEnd(_, _)
StringEnd(p, q) ==
    IF CharAt(p) = q THEN p + 1
    ELSE IF CharAt(p) = "\\"
    THEN IF CharAt(p + 1) \in LineEnds THEN NoMatch ELSE StringEnd(p + 2, q)
    ELSE IF CharAt(p) \in LineEnds THEN NoMatch
    ELSE StringEnd(p + 1, q)

\* \d+(?:\.\d+)?(?:[eE][+-]?\d+)? at p: the offset after it.
DecimalEnd(p) ==
    LET a == SkipWhile(p, Digits)
        b == IF CharAt(a) = "." /\ CharAt(a + 1) \in Digits THEN SkipWhile(a + 1, Digits) ELSE a
        x == IF CharAt(b + 1) \in {"+", "-"} THEN b + 2 ELSE b + 1
    IN  IF CharAt(b) \in {"e", "E"} /\ CharAt(x) \in Digits THEN SkipWhile(x, Digits) ELSE b

\* 0[xX][0-9a-fA-F]+|0[oO][0-7]+|0[bB][01]+|\d+(?:\.\d+)?(?:[eE][+-]?\d+)? at p
UnsignedEnd(p) ==
    LET radix(marks, digs) ==
            CharAt(p) = "0" /\ CharAt(p + 1) \in marks /\ CharAt(p + 2) \in digs
    IN  IF radix({"x", "X"}, Digits \cup {"a","b","c","d","e","f","A","B","C","D","E","F"})
        THEN SkipWhile(p + 2, Digits \cup {"a","b","c","d","e","f","A","B","C","D","E","F"})
        ELSE IF radix({"o", "O"}, {"0","1","2","3","4","5","6","7"})
        THEN SkipWhile(p + 2, {"0","1","2","3","4","5","6","7"})
        ELSE IF radix({"b", "B"}, {"0", "1"}) THEN SkipWhile(p + 2, {"0", "1"})
        ELSE IF CharAt(p) \in Digits THEN DecimalEnd(p)
        ELSE NoMatch

\* const WITHIN_BACKTICK_STRING: lazily any characters up to the first "${" or
\* backtick; the offset after it.
RECURSIVE BacktickEnd(_)
BacktickEnd(p) ==
    IF p >= Len(inData) THEN NoMatch
    ELSE IF CharAt(p) = Backtick THEN p + 1
    ELSE IF CharAt(p) = "$" /\ CharAt(p + 1) = "{" THEN p + 2
    ELSE BacktickEnd(p + 1)

\* const REGEXP = /\/(\\.|[^\/])+\/[gimsuyd]*/y after its first slash: n items of
\* the group are matched; more are tried before the closing slash is.
RECURSIVE RegexpEnd(_, _)
RegexpEnd(p, n) ==
    LET esc == IF CharAt(p) = "\\" /\ CharAt(p + 1) \notin LineEnds
               THEN RegexpEnd(p + 2, n + 1) ELSE NoMatch
        any == IF p < Len(inData) /\ CharAt(p) # "/" THEN RegexpEnd(p + 1, n + 1) ELSE NoMatch
    IN  IF esc # NoMatch THEN esc
        ELSE IF any # NoMatch THEN any
        ELSE IF n >= 1 /\ CharAt(p) = "/"
        THEN SkipWhile(p + 1, {"g", "i", "m", "s", "u", "y", "d"})
        ELSE NoMatch

Alt(cs, b) == [t |-> cs, b |-> b]

\* const OPERATOR = /instanceof\b|in\b|or\b|and\b|[!=]~|[+\-*\/!=<>]=|[+\-*\/=<>]|%[a-z_]+/y
OperatorMatch(p) ==
    LET word == FirstAlt(p, <<Alt(<<"i","n","s","t","a","n","c","e","o","f">>, TRUE),
                               Alt(<<"i","n">>, TRUE), Alt(<<"o","r">>, TRUE),
                               Alt(<<"a","n","d">>, TRUE)>>, 1)
        c == CharAt(p)
        d == CharAt(p + 1)
    IN  IF word # NoMatch THEN word
        ELSE IF c \in {"!", "="} /\ d = "~" THEN 2
        ELSE IF c \in {"+", "-", "*", "/", "!", "=", "<", ">"} /\ d = "=" THEN 2
        ELSE IF c \in {"+", "-", "*", "/", "=", "<", ">"} THEN 1
        ELSE IF c = "%" /\ d \in LowerCase \cup {"_"}
        THEN SkipWhile(p + 1, LowerCase \cup {"_"}) - p
        ELSE NoMatch

\* const EXPRESSION_PREFIX = /\+\+|--|!|\+|-|typeof\b|delete\b|await\b|new\b/y
PrefixMatch(p) ==
    FirstAlt(p, <<Alt(<<"+","+">>, FALSE), Alt(<<"-","-">>, FALSE), Alt(<<"!">>, FALSE),
                  Alt(<<"+">>, FALSE), Alt(<<"-">>, FALSE),
                  Alt(<<"t","y","p","e","o","f">>, TRUE), Alt(<<"d","e","l","e","t","e">>, TRUE),
                  Alt(<<"a","w","a","i","t">>, TRUE), Alt(<<"n","e","w">>, TRUE)>>, 1)

\* An end offset as a match length.
Span(p, q) == IF q = NoMatch THEN NoMatch ELSE q - p

\* Length of the match of a RegExp at offset p, NoMatch when it does not match.
RegExpMatch(name, p) ==
    CASE name = "identifier" ->
            IF CharAt(p) \in LowerCase \cup UpperCase \cup {"_", "$"}
            THEN SkipWhile(p + 1, LowerCase \cup UpperCase \cup Digits \cup {"_", "$"}) - p
            ELSE NoMatch
      [] name = "string" ->
            IF CharAt(p) \in {"'", "\""} THEN Span(p, StringEnd(p + 1, CharAt(p))) ELSE NoMatch
      [] name = "number" ->
            Span(p, UnsignedEnd(IF CharAt(p) \in {"+", "-"} THEN p + 1 ELSE p))
      [] name = "bin-op" -> OperatorMatch(p)
      [] name = "template" -> Span(p, BacktickEnd(p))
      [] name = "unary-op" -> PrefixMatch(p)
      [] name = "regexp" -> IF CharAt(p) = "/" THEN Span(p, RegexpEnd(p + 1, 0)) ELSE NoMatch
      [] name = "integer" -> IF CharAt(p) \in Digits THEN SkipWhile(p, Digits) - p ELSE NoMatch
      [] name = "anything" -> IF p < Len(inData) THEN 1 ELSE NoMatch
      [] OTHER -> NoMatch

\* The test read() applies to one pattern at offset p.
Match(what, p) ==
    IF what.re THEN RegExpMatch(what.t[1], p)
    ELSE LET cs == what.t
             n == Len(cs)
         IN  IF StartsWith(p, cs, 1)
                /\ (  (n = 0 \/ ~ALPHA_NUM(cs[n]))
                   \/ ~ALPHA_NUM(CharAt(p + n)) )
             THEN n ELSE NoMatch

\* ------------------------------------------------------------------- State

\* The mutable fields of the State object, as one value.
CurState ==
    [inPos |-> inPos, indentLevel |-> indentLevel, indentsPending |-> indentsPending,
     inLastNewlinePos |-> inLastNewlinePos, outTokens |-> outTokens,
     outTargetPos |-> outTargetPos, inPosLineCache |-> inPosLineCache,
     inPosColCache |-> inPosColCache, matchOptions |-> matchOptions, errors |-> errors]

\* const CACHE_INTERVAL
CACHE_INTERVAL == 100

\* The offsets in from..to that hold a newline.
NewlinesIn(from, to) == {pos \in from..to : CharAt(pos) = "\n"}

\* The for-loop of getLineCol() from offset from on: line and col after offset pos.
lineAfter(from, pos, line) == line + Cardinality(NewlinesIn(from, pos))
colAfter(from, pos, col) ==
    LET nls == NewlinesIn(from, pos)
    IN  IF nls = {} THEN col + (pos - from + 1)
        ELSE 1 + (pos - CHOOSE nl \in nls : \A other \in nls : other <= nl)

\* State.getLineCol(targetPos): the line and column, and the State with the lines
\* and columns the loop pushed to its caches at the multiples of CACHE_INTERVAL.
getLineCol(s, targetPos) ==
    LET last == Len(s.inPosLineCache) - 1
        slot == IF targetPos \div CACHE_INTERVAL < last THEN targetPos \div CACHE_INTERVAL
                ELSE last
        from == slot * CACHE_INTERVAL + 1
        line == s.inPosLineCache[slot + 1]
        col == s.inPosColCache[slot + 1]
        pushes == IF targetPos - 1 < from THEN 0 ELSE (targetPos - 1) \div CACHE_INTERVAL - slot
        at(i) == (slot + i) * CACHE_INTERVAL
    IN  [s |-> [s EXCEPT
                  !.inPosLineCache = @ \o [i \in 1..pushes |-> lineAfter(from, at(i), line)],
                  !.inPosColCache = @ \o [i \in 1..pushes |-> colAfter(from, at(i), col)]],
         line |-> IF targetPos - 1 < from THEN line ELSE lineAfter(from, targetPos - 1, line),
         col |-> IF targetPos - 1 < from THEN col ELSE colAfter(from, targetPos - 1, col)]

\* A ParseError: its offset and which throw statement raised it.
NoError == [offset |-> 0 - 1, kind |-> "none"]
ParseError(offset, kind) == [offset |-> offset, kind |-> kind]

\* How a call ended: the State it left (s), whether it returned a truthy value
\* ("ok"), a falsy one ("fail") or threw a ParseError ("throw"), the strings it
\* returned (v) and the error it threw (e).
Ok(s, v) == [s |-> s, r |-> "ok", v |-> v, e |-> NoError]
Fail(s) == [s |-> s, r |-> "fail", v |-> <<>>, e |-> NoError]
Throw(s, e) == [s |-> s, r |-> "throw", v |-> <<>>, e |-> e]

\* The entry matchOptions.add() receives for a failed read(...whats).
ExpectedEntry(whats) == IF Len(whats) = 1 THEN <<whats[1]>> ELSE whats

\* Mutant of matchAt: the pending markers are not looked at.
matchAt_ignoresPending(s, what) == Match(what, s.inPos)

\* The match read() looks for with one pattern: nothing while markers are pending.
matchAt(s, what) ==
    IF s.indentsPending # <<>> THEN NoMatch ELSE Match(what, s.inPos)

\* Mutant of readFailed: inPos is not put back.
readFailed_keepsPos(s, whats, orgInPos) ==
    Fail([s EXCEPT !.matchOptions = @ \cup {ExpectedEntry(whats)}])

\* read(): a pattern did not match.
readFailed(s, whats, orgInPos) ==
    Fail([s EXCEPT !.inPos = orgInPos,
                   !.matchOptions = @ \cup {ExpectedEntry(whats)}])

\* A readMatched that sets outTargetPos at every non-empty match.
readMatched_retargets(s, m) ==
    [s EXCEPT !.outTargetPos = IF m > 0 THEN s.inPos ELSE @,
              !.inPos = WHITESPACE(s.inPos + m)]

\* Mutant of readMatched: `inPos = result.length` for `inPos += result.length`.
readMatched_assignsLength(s, m) ==
    [s EXCEPT !.outTargetPos = IF @ = Undefined /\ m > 0 THEN s.inPos ELSE @,
              !.inPos = WHITESPACE(m)]

\* read(): a pattern matched m characters; they and the whitespace after them
\* are consumed, and the first non-empty match sets an unset outTargetPos.
readMatched(s, m) ==
    [s EXCEPT !.outTargetPos = IF @ = Undefined /\ m > 0 THEN s.inPos ELSE @,
              !.inPos = WHITESPACE(s.inPos + m)]

\* read(): every pattern matched.
readDone(s, results) == Ok([s EXCEPT !.matchOptions = {}], results)

\* The body of read()'s for-loop from pattern k on.
RECURSIVE readFrom(_, _, _, _, _)
readFrom(s, whats, k, results, orgInPos) ==
    IF k > Len(whats) THEN readDone(s, results)
    ELSE LET m == matchAt(s, whats[k])
         IN  IF m = NoMatch THEN readFailed(s, whats, orgInPos)
             ELSE readFrom(readMatched(s, m), whats, k + 1,
                           Append(results, SubSeq(inData, s.inPos + 1, s.inPos + m)),
                           orgInPos)

\* State.read(...whats)
read(s, whats) == readFrom(s, whats, 1, <<>>, s.inPos)

\* An output token: a string (Text) or a number (position mark; negative = no-map).
Text(cs) == [str |-> TRUE, t |-> cs, n |-> 0]
Mark(n) == [str |-> FALSE, t |-> <<>>, n |-> n]

\* Arguments of emit(): string | boolean | number | undefined | null.
EStr(cs) == [k |-> "string", t |-> cs, n |-> 0, b |-> FALSE]
EBool(b) == [k |-> "boolean", t |-> <<>>, n |-> 0, b |-> b]
ENum(n) == [k |-> "number", t |-> <<>>, n |-> n, b |-> FALSE]
ENull == [k |-> "null", t |-> <<>>, n |-> 0, b |-> FALSE]
EUndefined == [k |-> "undefined", t |-> <<>>, n |-> 0, b |-> FALSE]

\* autoPos: boolean | undefined
AutoUndefined == "undefined"
AutoTrue == "true"
AutoFalse == "false"

\* The body of emit()'s for-loop from argument k on.
RECURSIVE emitFrom(_, _, _, _)
emitFrom(s, eargs, k, autoPos) ==
    IF k > Len(eargs) THEN s
    ELSE LET arg == eargs[k]
         IN  CASE arg.k \in {"null", "undefined"} -> emitFrom(s, eargs, k + 1, autoPos)
               [] arg.k = "boolean" ->
                    emitFrom(s, eargs, k + 1, IF arg.b THEN AutoTrue ELSE AutoFalse)
               [] arg.k = "number" ->
                    emitFrom([s EXCEPT !.outTokens = Append(@, Mark(arg.n)),
                                       !.outTargetPos = Undefined],
                             eargs, k + 1, autoPos)
               [] OTHER ->
                    LET s1 == IF s.outTargetPos # Undefined
                              THEN IF autoPos = AutoUndefined
                                   THEN [s EXCEPT !.outTokens = Append(@, Mark(s.outTargetPos)),
                                                  !.outTargetPos = Undefined]
                                   ELSE IF autoPos = AutoTrue
                                   THEN [s EXCEPT !.outTokens = Append(@, Mark(0 - s.outTargetPos))]
                                   ELSE s
                              ELSE s
                    IN  emitFrom([s1 EXCEPT !.outTokens = Append(@, Text(arg.t))],
                                 eargs, k + 1, AutoUndefined)

\* State.emit(...args)
emit(s, eargs) == emitFrom(s, eargs, 1, AutoUndefined)

\* `for (const x of result) this.emit(x)`: one emit call per matched string.
RECURSIVE emitEach(_, _, _)
emitEach(s, strs, k) ==
    IF k > Len(strs) THEN s ELSE emitEach(emit(s, <<EStr(strs[k])>>), strs, k + 1)

\* State.accept(...whats)
accept(s, whats) ==
    LET res == read(s, whats)
    IN  IF res.r # "ok" THEN res
        ELSE [res EXCEPT !.s = emitEach(res.s, res.v, 1)]

\* State.snapshot(): the values the closures capture.
snapshot(s) ==
    [live |-> TRUE, inPos |-> s.inPos, indentLevel |-> s.indentLevel,
     indentsPending |-> s.indentsPending, inLastNewlinePos |-> s.inLastNewlinePos,
     outTargetPos |-> s.outTargetPos, outLength |-> Len(s.outTokens)]

\* `undefined` for a variable of type Snapshot | undefined.
NoSnap == [live |-> FALSE, inPos |-> 0, indentLevel |-> 0, indentsPending |-> <<>>,
           inLastNewlinePos |-> 0, outTargetPos |-> Undefined, outLength |-> 0]

\* The slot an array holds after `length = n` grew it past its elements.
EmptySlot == [str |-> FALSE, t |-> <<"<empty>">>, n |-> 0]

\* `outTokens.length = n`: truncates, or pads with empty slots.
SetLength(toks, n) ==
    IF n <= Len(toks) THEN SubSeq(toks, 1, n)
    ELSE toks \o [i \in 1..(n - Len(toks)) |-> EmptySlot]

\* Mutant of revert: inLastNewlinePos is not restored.
revert_keepsSentinel(s, snap) ==
    [s EXCEPT !.inPos = snap.inPos,
              !.indentLevel = snap.indentLevel,
              !.indentsPending = snap.indentsPending,
              !.outTargetPos = snap.outTargetPos,
              !.outTokens = SetLength(@, snap.outLength)]

\* A revert that also forgets the errors recorded so far.
revert_dropsErrors(s, snap) ==
    [s EXCEPT !.inPos = snap.inPos,
              !.indentLevel = snap.indentLevel,
              !.indentsPending = snap.indentsPending,
              !.inLastNewlinePos = snap.inLastNewlinePos,
              !.outTargetPos = snap.outTargetPos,
              !.outTokens = SetLength(@, snap.outLength),
              !.errors = <<>>]

\* Snapshot.revert()
revert(s, snap) ==
    [s EXCEPT !.inPos = snap.inPos,
              !.indentLevel = snap.indentLevel,
              !.indentsPending = snap.indentsPending,
              !.inLastNewlinePos = snap.inLastNewlinePos,
              !.outTargetPos = snap.outTargetPos,
              !.outTokens = SetLength(@, snap.outLength)]

\* A revertOutput that leaves the output stream as it is.
revertOutput_keeps(s, snap) == s

\* Snapshot.revertOutput(): the State after it (splice(outLength) removes the tail).
revertOutput(s, snap) ==
    [s EXCEPT !.outTargetPos = snap.outTargetPos,
              !.outTokens = SubSeq(@, 1, IF snap.outLength < Len(@) THEN snap.outLength ELSE Len(@))]

\* Snapshot.revertOutput(): the discarded tokens it returns.
discardOut(s, snap) == SubSeq(s.outTokens, snap.outLength + 1, Len(s.outTokens))

\* A hasOutput that counts position marks as output.
hasOutput_anyToken(s, snap) == Len(s.outTokens) > snap.outLength

\* Snapshot.hasOutput()
hasOutput(s, snap) == \E i \in (snap.outLength + 1)..Len(s.outTokens) : s.outTokens[i].str

\* Mutant of peek: the snapshot is not reverted.
peek_noRevert(s, whats) == read(s, whats)

\* State.peek(...whats)
peek(s, whats) ==
    LET snap == snapshot(s)
        res == read(s, whats)
    IN  [res EXCEPT !.s = revert(res.s, snap)]

\* The strings readNewline/readIndent/readDedent add to matchOptions.
NEWLINE == <<Lit(<<"NEWLINE">>)>>
INDENT == <<Lit(<<"INDENT">>)>>
DEDENT == <<Lit(<<"DEDENT">>)>>

\* n copies of marker c
Markers(c, n) == [i \in 1..n |-> c]

\* A flush that sets the level and queues no marker.
flushIndent_levelOnly(s, newIndent) == [s EXCEPT !.indentLevel = newIndent]

\* for (; indentLevel < newIndent; indentLevel++) indentsPending += 'i';
\* for (; indentLevel > newIndent; indentLevel--) indentsPending += 'd';
flushIndent(s, newIndent) ==
    [s EXCEPT !.indentsPending =
                  IF s.indentLevel < newIndent THEN @ \o Markers("i", newIndent - s.indentLevel)
                  ELSE @ \o Markers("d", s.indentLevel - newIndent),
              !.indentLevel = newIndent]

\* Mutant of newlineDone: the position is not remembered.
newlineDone_noSentinel(s, newIndent) ==
    Ok([flushIndent(s, newIndent) EXCEPT !.matchOptions = {}], <<>>)

\* readNewline() after its loop: the markers for the new level are queued and
\* the position is remembered as the one just after a newline.
newlineDone(s, newIndent) ==
    Ok([flushIndent(s, newIndent) EXCEPT !.matchOptions = {}, !.inLastNewlinePos = s.inPos], <<>>)

\* The while(true) loop of readNewline(); newIndent is Undefined until a
\* newline or the end of the input has been seen.
RECURSIVE newlineLoop(_, _, _, _)
newlineLoop(s, forceIndent, newIndent, orgInPos) ==
        IF s.inPos >= Len(inData) THEN newlineDone(s, 0)
        ELSE IF CharAt(s.inPos) = "\n"
        THEN LET p == s.inPos + 1
                 s1 == IF forceIndent
                       THEN LET f == IF newIndent # Undefined THEN flushIndent(s, newIndent) ELSE s
                            IN  [f EXCEPT !.indentLevel = @ + 1,
                                          !.indentsPending = Append(@, "i"),
                                          !.inPos = p]
                       ELSE [s EXCEPT !.inPos = p]
                 ni == SkipWhile(p, {"\t"}) - p
             IN  IF CharAt(p + ni) = " "
                 THEN Throw(getLineCol(s1, p).s, ParseError(p + ni, "space"))
                 ELSE newlineLoop([s1 EXCEPT !.inPos = WHITESPACE(p)], FALSE, ni, orgInPos)
        ELSE IF CharAt(s.inPos) = ";" /\ ~forceIndent
        THEN newlineLoop([s EXCEPT !.inPos = WHITESPACE(s.inPos + 1)], TRUE, newIndent, orgInPos)
        ELSE IF newIndent = Undefined
        THEN Fail([s EXCEPT !.inPos = orgInPos, !.matchOptions = @ \cup {NEWLINE}])
        ELSE newlineDone(s, newIndent)

\* State.readNewline()
readNewline(s) ==
    IF s.inLastNewlinePos = s.inPos THEN Ok(s, <<>>)
    ELSE IF s.indentsPending # <<>>
    THEN Fail([s EXCEPT !.matchOptions = @ \cup {NEWLINE}])
    ELSE newlineLoop(s, FALSE, Undefined, s.inPos)

\* Mutant of readMarker: the head marker is consumed whatever it is.
readMarker_anyHead(s, c, name) ==
    LET empty == s.indentsPending = <<>>
        snap == snapshot(s)
        nl == IF empty THEN readNewline(s) ELSE Ok(s, <<>>)
        s1 == nl.s
    IN  IF nl.r # "ok" THEN nl
        ELSE IF s1.indentsPending # <<>>
        THEN Ok([s1 EXCEPT !.indentsPending = Tail(@), !.matchOptions = {}], <<>>)
        ELSE Fail([(IF empty THEN revert(s1, snap) ELSE s1)
                      EXCEPT !.matchOptions = @ \cup {name}])

\* A readMarker that leaves the scanner where readNewline put it when it fails.
readMarker_keepsAdvance(s, c, name) ==
    LET empty == s.indentsPending = <<>>
        nl == IF empty THEN readNewline(s) ELSE Ok(s, <<>>)
        s1 == nl.s
    IN  IF nl.r # "ok" THEN nl
        ELSE IF s1.indentsPending # <<>> /\ Head(s1.indentsPending) = c
        THEN Ok([s1 EXCEPT !.indentsPending = Tail(@), !.matchOptions = {}], <<>>)
        ELSE Fail([s1 EXCEPT !.matchOptions = @ \cup {name}])

\* readIndent() and readDedent(): c is the marker wanted, name the expected-set entry.
readMarker(s, c, name) ==
    LET empty == s.indentsPending = <<>>
        snap == snapshot(s)
        nl == IF empty THEN readNewline(s) ELSE Ok(s, <<>>)
        s1 == nl.s
    IN  IF nl.r # "ok" THEN nl
        ELSE IF s1.indentsPending # <<>> /\ Head(s1.indentsPending) = c
        THEN Ok([s1 EXCEPT !.indentsPending = Tail(@), !.matchOptions = {}], <<>>)
        ELSE Fail([(IF empty THEN revert(s1, snap) ELSE s1)
                      EXCEPT !.matchOptions = @ \cup {name}])

\* State.readIndent()
readIndent(s) == readMarker(s, "i", INDENT)

\* State.readDedent()
readDedent(s) == readMarker(s, "d", DEDENT)

\* A must that passes a falsy result on as success.
must_passes(res) == IF res.r = "fail" THEN Ok(res.s, <<>>) ELSE res

\* State.must(result), for a result already evaluated.
must(res) ==
    IF res.r = "fail"
    THEN Throw(getLineCol(res.s, res.s.inPos).s, ParseError(res.s.inPos, "syntax"))
    ELSE res

\* The first of two steps that threw, or else what follows them.
Try(res, rest) == IF res.r = "throw" THEN res ELSE rest

\* this.parseX(s, ...) and s.read(...): inside the parser every call of a parser
\* method, of a named piece of one or of a method of the State goes through this,
\* with the name, the State and the remaining arguments, so that TLC unfolds the
\* body of each of them once.
RECURSIVE this(_, _, _)

\* The methods of the State as the parser calls them.
s_read(s, whats) == this("read", s, <<whats>>)
s_peek(s, whats) == this("peek", s, <<whats>>)
s_accept(s, whats) == this("accept", s, <<whats>>)
s_acceptType(s, whats) == this("acceptType", s, <<whats>>)
s_emit(s, eargs) == this("emit", s, <<eargs>>)
s_readNewline(s) == this("readNewline", s, <<>>)
s_readIndent(s) == this("readIndent", s, <<>>)
s_readDedent(s) == this("readDedent", s, <<>>)
s_parseGroup(s, opts, cl) == this("parseGroup", s, <<opts, cl>>)
s_recoverErrors(s, res) == this("recoverErrors", s, <<res>>)

\* An acceptType that leaves outTargetPos where read() put it when types are stripped.
acceptType_keepsTarget(s, whats) ==
    LET res == s_read(s, whats)
    IN  IF res.r # "ok" \/ options.js THEN res
        ELSE [res EXCEPT !.s = emitEach(res.s, res.v, 1)]

\* State.acceptType(...whats)
acceptType(s, whats) ==
    LET res == s_read(s, whats)
    IN  IF res.r # "ok" THEN res
        ELSE IF ~options.js THEN [res EXCEPT !.s = emitEach(res.s, res.v, 1)]
        ELSE [res EXCEPT !.s = [res.s EXCEPT !.outTargetPos = s.outTargetPos]]

\* State.acceptType(func): res is what func returned when called on s.
acceptTypeFunc(s, res) ==
    IF options.js /\ res.r # "throw"
    THEN [res EXCEPT !.s = [revertOutput(res.s, snapshot(s)) EXCEPT !.outTargetPos = s.outTargetPos]]
    ELSE res

\* State.hasMore()
hasMore(s) == s.inPos < Len(inData)

\* State.clearTargetPos()
clearTargetPos(s) == [s EXCEPT !.outTargetPos = Undefined]

\* State.justAfterNewLine()
justAfterNewLine(s) == s.inLastNewlinePos = s.inPos

\* State.lastNotSpace()
lastNotSpace(s) == s.inPos > 0 /\ CharAt(s.inPos - 1) # " "

\* ParseGroupOpts; a field that is not given is EUndefined.
NoOpts == [open |-> EUndefined, close |-> EUndefined, next |-> EUndefined,
           jsOpen |-> EUndefined, jsClose |-> EUndefined, jsNext |-> EUndefined,
           allowImplicit |-> FALSE, endNext |-> "undefined"]

\* Truthiness of an optional string.
Truthy(x) == x.k = "string" /\ x.t # <<>>

\* What a parseGroup call hands back: its result and the variables its item
\* closure has captured, as the closure left them.
Group(res, cl) == [res |-> res, cl |-> cl, snap |-> NoSnap]

\* A group that left its loop, and the State it was in there, before it read its
\* DEDENT and its close.
AtEnd(group, s) == [res |-> group.res, cl |-> group.cl, snap |-> group.snap, end |-> s]
GroupEnd(group) == IF "end" \in DOMAIN group THEN group.end ELSE group.res.s

\* The while(true) loop of parseGroup().
groupLoop(s, opts, cl, indentOpen, jsNext, snap) ==
    LET it == this("CallItem", s, <<cl>>)
        s1 == it.res.s
        sep == IF Truthy(opts.next) THEN s_read(s1, <<Lit(opts.next.t)>>) ELSE Fail(s1)
        s2 == s_emit(sep.s, <<jsNext>>)
        nl2 == IF indentOpen THEN must(s_readNewline(s2)) ELSE Ok(s2, <<>>)
        nl == IF indentOpen THEN s_readNewline(sep.s) ELSE Fail(sep.s)
        snap1 == IF opts.endNext = "false" THEN snapshot(nl.s) ELSE NoSnap
    IN  IF it.res.r = "throw" THEN Group(it.res, it.cl)
        ELSE IF it.res.r = "fail" THEN [res |-> Ok(s1, <<>>), cl |-> it.cl, snap |-> snap]
        ELSE IF sep.r = "ok"
        THEN IF nl2.r = "throw" THEN Group(nl2, it.cl)
             ELSE this("groupLoop", nl2.s, <<opts, it.cl, indentOpen, jsNext, NoSnap>>)
        ELSE IF nl.r = "throw" THEN Group(nl, it.cl)
        ELSE IF nl.r = "ok"
        THEN this("groupLoop", s_emit(nl.s, <<jsNext>>), <<opts, it.cl, indentOpen, jsNext, snap1>>)
        ELSE [res |-> Ok(nl.s, <<>>), cl |-> it.cl, snap |-> NoSnap]

\* State.parseGroup(opts, itemFunc)
parseGroup(s, opts, cl) ==
    LET jsOpen == IF opts.jsOpen.k # "undefined" THEN opts.jsOpen ELSE opts.open
        jsClose == IF opts.jsClose.k # "undefined" THEN opts.jsClose ELSE opts.close
        jsNext == IF opts.jsNext.k # "undefined" THEN opts.jsNext ELSE opts.next
        lit == IF Truthy(opts.open) THEN s_read(s, <<Lit(opts.open.t)>>) ELSE Fail(s)
        literalOpen == lit.r = "ok"
        Let_s1(jsOpen_, lit_, literalOpen_) ==
            IF literalOpen_ THEN s_emit(lit_.s, <<jsOpen_>>) ELSE lit_.s
        s1 == Let_s1(jsOpen, lit, literalOpen)
        ind == s_readIndent(s1)
        indentOpen == ind.r = "ok"
        Let_s2(jsOpen_, literalOpen_, ind_) ==
            IF literalOpen_ THEN ind_.s ELSE s_emit(ind_.s, <<jsOpen_>>)
        s2 == Let_s2(jsOpen, literalOpen, ind)
        lp == this("groupLoop", s2, <<opts, cl, indentOpen, jsNext, NoSnap>>)
        Let_s3(lp_) == IF lp_.snap.live THEN revertOutput(lp_.res.s, lp_.snap) ELSE lp_.res.s
        s3 == Let_s3(lp)
        Let_ded(indentOpen_, s3_) ==
            IF indentOpen_ THEN must(s_readDedent(s3_)) ELSE Ok(s3_, <<>>)
        ded == Let_ded(indentOpen, s3)
        closing == literalOpen /\ Truthy(opts.close)
        Let_clo(ded_, closing_) ==
            IF closing_ THEN must(s_read(ded_.s, <<Lit(opts.close.t)>>)) ELSE Ok(ded_.s, <<>>)
        clo == Let_clo(ded, closing)
        Let_s4(closing_, clo_) ==
            IF closing_ THEN [clo_.s EXCEPT !.outTargetPos = Undefined] ELSE clo_.s
        s4 == Let_s4(closing, clo)
        Let_s5(jsClose_, s4_) == IF Truthy(jsClose_) THEN s_emit(s4_, <<jsClose_>>) ELSE s4_
        s5 == Let_s5(jsClose, s4)
        Let_IN(literalOpen_, s1_, ind_, indentOpen_, lp_, s3_, ded_, clo_, s5_) ==
            IF ~literalOpen_ /\ ~opts.allowImplicit THEN Group(Fail(s1_), cl)
            ELSE IF ind_.r = "throw" THEN Group(ind_, cl)
            ELSE IF ~literalOpen_ /\ ~indentOpen_ THEN Group(Fail(ind_.s), cl)
            ELSE IF lp_.res.r = "throw" THEN Group(lp_.res, lp_.cl)
            ELSE AtEnd(Group(Try(ded_, Try(clo_, Ok(s5_, <<>>))), lp_.cl), s3_)
    IN  Let_IN(literalOpen, s1, ind, indentOpen, lp, s3, ded, clo, s5)

\* A skip loop that returns at a line break it has not moved past.
recoverLoop_eager(s, level, startPos) ==
    LET ind == s_readIndent(s)
        level1 == IF ind.r = "ok" THEN level + 1 ELSE level
        nl == s_readNewline(ind.s)
        s1 == [nl.s EXCEPT !.outTargetPos = Undefined]
        lastToken == s1.outTokens[Len(s1.outTokens)]
        s2 == IF s1.outTokens # <<>> /\ lastToken = Text(<<";">>) THEN s1
              ELSE s_emit(s1, <<EStr(<<";">>)>>)
        ded == s_readDedent(nl.s)
        r1 == s_read(ded.s, <<IDENTIFIER>>)
        r2 == s_read(r1.s, <<STRING_RE>>)
        r3 == s_read(r2.s, <<ANYTHING>>)
        skip == IF r1.r = "ok" THEN r1 ELSE IF r2.r = "ok" THEN r2 ELSE must(r3)
    IN  IF s.inPos >= Len(inData) THEN Fail(s)
        ELSE Try(ind, Try(nl,
             IF nl.r = "ok" /\ level1 <= 0 THEN Ok(s2, <<>>)
             ELSE Try(ded,
                  IF ded.r = "ok" THEN this("recoverLoop", ded.s, <<level1 - 1, startPos>>)
                  ELSE Try(skip, this("recoverLoop", skip.s, <<level1, startPos>>)))))

\* The while loop of recoverErrors()'s catch block.
recoverLoop(s, level, startPos) ==
    LET ind == s_readIndent(s)
        level1 == IF ind.r = "ok" THEN level + 1 ELSE level
        nl == s_readNewline(ind.s)
        s1 == [nl.s EXCEPT !.outTargetPos = Undefined]
        lastToken == s1.outTokens[Len(s1.outTokens)]
        s2 == IF s1.outTokens # <<>> /\ lastToken = Text(<<";">>) THEN s1
              ELSE s_emit(s1, <<EStr(<<";">>)>>)
        ded == s_readDedent(nl.s)
        r1 == s_read(ded.s, <<IDENTIFIER>>)
        r2 == s_read(r1.s, <<STRING_RE>>)
        r3 == s_read(r2.s, <<ANYTHING>>)
        skip == IF r1.r = "ok" THEN r1 ELSE IF r2.r = "ok" THEN r2 ELSE must(r3)
    IN  IF s.inPos >= Len(inData) THEN Fail(s)
        ELSE Try(ind, Try(nl,
             IF nl.r = "ok" /\ level1 <= 0 /\ nl.s.inPos > startPos THEN Ok(s2, <<>>)
             ELSE Try(ded,
                  IF ded.r = "ok" THEN this("recoverLoop", ded.s, <<level1 - 1, startPos>>)
                  ELSE Try(skip, this("recoverLoop", skip.s, <<level1, startPos>>)))))

\* A recoverErrors that recovers whether or not the recover option is set.
recoverErrors_always(s, res) ==
    IF res.r # "throw" \/ res.e.kind \notin {"syntax", "space", "version"}
    THEN res
    ELSE this("recoverLoop", [res.s EXCEPT !.errors = Append(@, res.e)], <<res.s.indentLevel - s.indentLevel, s.inPos>>)

\* A recoverErrors that skips to the end of the line before it rethrows.
recoverErrors_consumes(s, res) ==
    IF res.r # "throw" \/ res.e.kind \notin {"syntax", "space", "version"}
    THEN res
    ELSE IF ~options.recover
    THEN [res EXCEPT !.s = [res.s EXCEPT !.inPos = SkipToEol(@)]]
    ELSE this("recoverLoop", [res.s EXCEPT !.errors = Append(@, res.e)], <<res.s.indentLevel - s.indentLevel, s.inPos>>)

\* A recoverErrors that puts the error it recovers from in front of the list.
recoverErrors_prepends(s, res) ==
    IF ~options.recover \/ res.r # "throw" \/ res.e.kind \notin {"syntax", "space", "version"}
    THEN res
    ELSE this("recoverLoop", [res.s EXCEPT !.errors = <<res.e>> \o @], <<res.s.indentLevel - s.indentLevel, s.inPos>>)

\* State.recoverErrors(func): res is what func did when called on s.
recoverErrors(s, res) ==
    IF ~options.recover \/ res.r # "throw" \/ res.e.kind \notin {"syntax", "space", "version"}
    THEN res
    ELSE this("recoverLoop", [res.s EXCEPT !.errors = Append(@, res.e)], <<res.s.indentLevel - s.indentLevel, s.inPos>>)

\* ------------------------------------------------------------------ Parser

\* A string literal of parser.ts as the sequence of its characters.
Spell(w) == [i \in 1..Len(w) |-> SubSeq(w, i, i)]

\* A literal of the parser as a pattern for read(), and as an argument of emit().
Kw(w) == Lit(Spell(w))
Out(w) == EStr(Spell(w))

\* const REPLACE_OPERATORS
REPLACE_OPERATORS ==
    Spell("or") :> Spell("||") @@ Spell("and") :> Spell("&&") @@
    Spell("==") :> Spell("===") @@ Spell("!=") :> Spell("!==") @@
    Spell("=~") :> Spell("==") @@ Spell("!~") :> Spell("!=") @@
    Spell("%mod") :> Spell("%") @@ Spell("%bit_or") :> Spell("|") @@
    Spell("%bit_and") :> Spell("&") @@ Spell("%bit_xor") :> Spell("^") @@
    Spell("%shift_left") :> Spell("<<") @@ Spell("%shift_right") :> Spell(">>") @@
    Spell("%unsigned_shift_right") :> Spell(">>>")

\* A parser method that returned true / false, leaving s.
True(s) == Ok(s, <<>>)
False(s) == Fail(s)

\* What an item closure hands back: its result and its captured variables.
Item(res, cl) == [res |-> res, cl |-> cl]

\* Parser.parseFuncParams: the item closure; cl holds isConstructor and propArgs.
paramItem(cl, s) ==
    LET dots == s_accept(s, <<Kw("...")>>)
        restName == must(s_accept(dots.s, <<IDENTIFIER>>))
        Let_m1(dots_) ==
            IF cl.isConstructor THEN s_acceptType(dots_.s, <<Kw("public")>>) ELSE Fail(dots_.s)
        m1 == Let_m1(dots)
        Let_m2(m1_) ==
            IF cl.isConstructor /\ m1_.r # "ok" THEN s_acceptType(m1_.s, <<Kw("private")>>) ELSE m1_
        m2 == Let_m2(m1)
        Let_m3(m2_) ==
            IF cl.isConstructor /\ m2_.r # "ok" THEN s_acceptType(m2_.s, <<Kw("protected")>>) ELSE m2_
        m3 == Let_m3(m2)
        isProp == cl.isConstructor /\ m3.r = "ok" /\ options.js
        id == s_accept(m3.s, <<IDENTIFIER>>)
        Let_name(dots_, restName_, isProp_, id_) ==
            IF dots_.r = "ok" THEN restName_ ELSE IF isProp_ THEN must(id_) ELSE id_
        name == Let_name(dots, restName, isProp, id)
        Let_cl1(dots_, isProp_, name_) ==
            IF dots_.r # "ok" /\ isProp_ /\ name_.r = "ok"
            THEN [cl EXCEPT !.propArgs = @ \o Spell("this.") \o name_.v[1] \o <<"=">>
                                           \o name_.v[1] \o <<";">>]
            ELSE cl
        cl1 == Let_cl1(dots, isProp, name)
        opt == s_acceptType(name.s, <<Kw("?")>>)
        col == s_acceptType(opt.s, <<Kw(":")>>)
        Let_ty(col_) == IF col_.r = "ok" THEN must(this("parseType", col_.s, <<TRUE>>)) ELSE col_
        ty == Let_ty(col)
        eq == s_accept(ty.s, <<Kw("=")>>)
        Let_ex(eq_) ==
            IF eq_.r = "ok" THEN must(this("parseExpression", eq_.s, <<FALSE>>)) ELSE eq_
        ex == Let_ex(eq)
        Let_IN(name_, cl1_, ty_, ex_) ==
            IF name_.r = "throw" THEN Item(name_, cl)
            ELSE IF name_.r = "fail" THEN Item(False(name_.s), cl1_)
            ELSE Item(Try(ty_, Try(ex_, True(ex_.s))), cl1_)
    IN  Let_IN(name, cl1, ty, ex)

\* Parser.parseFuncParams(s, isConstructor, parenthesis): returns propArgs or true.
parseFuncParams(s, isConstructor, parenthesis) ==
    LET opts == [NoOpts EXCEPT !.open = Out(IF parenthesis THEN "(" ELSE "|"),
                               !.close = Out(IF parenthesis THEN ")" ELSE "|"),
                               !.next = Out(","), !.jsOpen = Out("("), !.jsClose = Out(")")]
        isGroup == s_parseGroup(s, opts, [f |-> "param", isConstructor |-> isConstructor,
                                        propArgs |-> <<>>])
    IN  IF isGroup.res.r # "ok" THEN isGroup.res
        ELSE IF isConstructor /\ isGroup.cl.propArgs # <<>>
        THEN Ok(isGroup.res.s, <<isGroup.cl.propArgs>>)
        ELSE True(isGroup.res.s)

\* Parser.parseFunction(s, declaration)
parseFunction(s, declaration) ==
    LET snap0 == IF options.js THEN snapshot(s) ELSE NoSnap
        async == s_accept(s, <<Kw("async")>>)
        isAsync == async.r = "ok"
        func == s_accept(async.s, <<Kw("function")>>)
        isClassic == func.r = "ok"
        star == s_accept(func.s, <<Kw("*")>>)
        name == s_accept(star.s, <<IDENTIFIER>>)
        tpl == this("parseTemplateDef", IF isClassic THEN name.s ELSE func.s, <<>>)
        hasTemplate == tpl.r = "ok"
        bars == this("parseFuncParams", tpl.s, <<FALSE, FALSE>>)
        Let_parens(bars_) ==
            IF bars_.r = "fail" THEN this("parseFuncParams", bars_.s, <<FALSE, TRUE>>) ELSE bars_
        parens == Let_parens(bars)
        Let_params(isAsync_, isClassic_, hasTemplate_, bars_, parens_) ==
            IF isClassic_
            THEN IF parens_.r = "fail" THEN True(s_emit(parens_.s, <<Out("()")>>)) ELSE parens_
            ELSE IF isAsync_ \/ hasTemplate_ THEN must(bars_)
            ELSE bars_
        params == Let_params(isAsync, isClassic, hasTemplate, bars, parens)
        ftype == this("parseFuncType", params.s, <<>>)
        snap == IF isClassic THEN snap0
                ELSE IF options.js THEN snapshot(ftype.s) ELSE NoSnap
        Let_s1(isClassic_, ftype_) ==
            IF isClassic_ THEN ftype_.s ELSE s_emit(ftype_.s, <<Out("=>")>>)
        s1 == Let_s1(isClassic, ftype)
        block == this("parseBlock", s1, <<>>)
        Let_body(isClassic_, block_) ==
            IF isClassic_ THEN this("parseClassicFuncExprBody", block_.s, <<>>)
            ELSE this("parseArrowFuncExprBody", block_.s, <<>>)
        body == Let_body(isClassic, block)
        Let_decl(body_) == must(IF declaration THEN True(body_.s) ELSE False(body_.s))
        decl == Let_decl(body)
        s2 == s_emit(decl.s, <<Out(";")>>)
        Let_s3(snap_, s2_) == IF snap_.live THEN revertOutput(s2_, snap_) ELSE s2_
        s3 == Let_s3(snap, s2)
        Let_IN(func_, isClassic_, tpl_, params_, ftype_, block_, body_, decl_, s3_) ==
            IF ~isClassic_ /\ declaration THEN False(func_.s)
            ELSE Try(tpl_, Try(params_,
                 IF params_.r = "fail" THEN False(params_.s)
                 ELSE Try(ftype_, Try(block_,
                      IF block_.r = "ok" THEN True(block_.s)
                      ELSE Try(body_,
                           IF body_.r = "ok" THEN True(body_.s)
                           ELSE Try(decl_, True(s3_)))))))
    IN  Let_IN(func, isClassic, tpl, params, ftype, block, body, decl, s3)

\* Parser.parseVarDecl(s, allowInit)
parseVarDecl(s, allowInit) ==
    LET match == s_read(s, <<IDENTIFIER, Kw(":")>>)
        colon == s_read(match.s, <<Kw(":")>>)
        Let_s1(match_, colon_) ==
            s_emit(colon_.s, <<EBool(TRUE), Out(IF colon_.r = "ok" THEN "let" ELSE "const"),
                            EStr(match_.v[1])>>)
        s1 == Let_s1(match, colon)
        snap == snapshot(s1)
        Let_s2(s1_) == IF ~options.js THEN s_emit(s1_, <<Out(":")>>) ELSE s1_
        s2 == Let_s2(s1)
        type == this("parseType", s2, <<TRUE>>)
        Let_s3(snap_, type_) == IF type_.r = "ok" THEN type_.s ELSE revertOutput(type_.s, snap_)
        s3 == Let_s3(snap, type)
        Let_eq(s3_) == IF allowInit THEN s_accept(s3_, <<Kw("=")>>) ELSE Fail(s3_)
        eq == Let_eq(s3)
        Let_init(eq_) ==
            IF eq_.r = "ok" THEN must(this("parseExpression", eq_.s, <<FALSE>>)) ELSE eq_
        init == Let_init(eq)
        Let_IN(match_, type_, init_) ==
            IF match_.r # "ok" THEN False(match_.s)
            ELSE Try(type_, Try(init_, True(init_.s)))
    IN  Let_IN(match, type, init)

\* Parser.parseExpression: the loop over prefix operators; what it leaves is the
\* State and `required`.
prefixLoop(s, required) ==
    LET prefix == s_accept(s, <<EXPRESSION_PREFIX>>)
        bitNot == s_read(prefix.s, <<Kw("%bit_not")>>)
    IN  IF prefix.r = "ok" THEN this("prefixLoop", prefix.s, <<TRUE>>)
        ELSE IF bitNot.r = "ok" THEN this("prefixLoop", s_emit(bitNot.s, <<Out("~")>>), <<TRUE>>)
        ELSE [s |-> bitNot.s, required |-> required]

\* a || b for two parse results, b being evaluated on the State a left.
OrElse(a, b) == IF a.r = "fail" THEN b ELSE a

\* The last of the results of a chain of alternatives, each of which has been
\* evaluated after the ones before it.
InOrder(results) == results[Len(results)]

\* Parser.parseExpression: the alternatives for the operand.
primary(s) ==
    LET p1 == this("parseClass", s, <<>>)
        Let_p2(p1_) == OrElse(p1_, this("parseFunction", p1_.s, <<FALSE>>))
        p2 == Let_p2(p1)
        Let_p3(p2_) == OrElse(p2_, s_accept(p2_.s, <<IDENTIFIER>>))
        p3 == Let_p3(p2)
        Let_p4(p3_) == OrElse(p3_, this("parseLiteralArray", p3_.s, <<>>))
        p4 == Let_p4(p3)
        Let_p5(p4_) == OrElse(p4_, this("parseLiteralObject", p4_.s, <<>>))
        p5 == Let_p5(p4)
        Let_p6(p5_) == OrElse(p5_, s_accept(p5_.s, <<STRING_RE>>))
        p6 == Let_p6(p5)
        Let_p7(p6_) == OrElse(p6_, this("parseBacktickString", p6_.s, <<>>))
        p7 == Let_p7(p6)
        Let_p8(p7_) == OrElse(p7_, s_accept(p7_.s, <<NUMBER>>))
        p8 == Let_p8(p7)
        Let_p9(p8_) == OrElse(p8_, this("parseParenthesised", p8_.s, <<>>))
        p9 == InOrder(<<p1, p2, p3, p4, p5, p6, p7, p8, Let_p9(p8)>>)
        Let_IN(p9_) ==
            OrElse(p9_, s_accept(p9_.s, <<REGEXP>>))
    IN  Let_IN(p9)

\* while (s.accept(',')) s.must(this.parseExpression(s));
commaExprs(s) ==
    LET comma == s_accept(s, <<Kw(",")>>)
        expr == must(this("parseExpression", comma.s, <<FALSE>>))
    IN  IF comma.r # "ok" THEN True(comma.s) ELSE Try(expr, this("commaExprs", expr.s, <<>>))

\* Parser.parseExpression: the loop over space-separated arguments after `..`;
\* snap is the snapshot taken before the last comma that was emitted.
spacedArgs(s, snap) ==
    LET expr == this("parseExpression", s, <<FALSE>>)
        more == this("commaExprs", expr.s, <<>>)
    IN  IF expr.r = "throw" THEN [res |-> expr, snap |-> snap]
        ELSE IF expr.r = "fail" THEN [res |-> True(expr.s), snap |-> snap]
        ELSE IF more.r = "throw" THEN [res |-> more, snap |-> snap]
        ELSE this("spacedArgs", s_emit(more.s, <<Out(",")>>), <<snapshot(more.s)>>)

\* Parser.parseExpression: the arguments after `..` has been read.
dotDotArgs(s) ==
    LET opts == [NoOpts EXCEPT !.jsOpen = Out("("), !.jsClose = Out(")"), !.jsNext = Out(","),
                               !.allowImplicit = TRUE, !.endNext = "false"]
        group == s_parseGroup(s, opts, [f |-> "expression"]).res
        loop == this("spacedArgs", s_emit(group.s, <<Out("(")>>), <<NoSnap>>)
        s1 == IF loop.snap.live THEN revertOutput(loop.res.s, loop.snap) ELSE loop.res.s
    IN  IF group.r # "fail" THEN group
        ELSE Try(loop.res, True(s_emit(s1, <<Out(")")>>)))

\* Parser.parseExpression: a binary operator tmp has been read.
operatorTail(s, tmp, withinTag) ==
    LET known == tmp \in DOMAIN REPLACE_OPERATORS
        valid == must(IF tmp[1] # "%" \/ known THEN True(s) ELSE False(s))
        s1 == s_emit(valid.s, <<EStr(IF known THEN REPLACE_OPERATORS[tmp] ELSE tmp)>>)
        eq == s_accept(s1, <<Kw("=")>>)
        rhs == must(this("parseExpression", eq.s, <<withinTag>>))
    IN  Try(valid, Try(rhs, True(rhs.s)))

\* Parser.parseExpression: the loop over what follows the operand. `returned`
\* tells that the loop ended in a return statement (or a throw).
postfixLoop(s, withinTag) ==
    LET lastNotSp == lastNotSpace(s)
        again(res) == IF res.r = "throw" THEN [res |-> res, returned |-> TRUE]
                      ELSE this("postfixLoop", res.s, <<withinTag>>)
        call == IF lastNotSp
                THEN s_parseGroup(s, [NoOpts EXCEPT !.open = Out("("), !.close = Out(")"),
                                                  !.next = Out(",")], [f |-> "argument"]).res
                ELSE Fail(s)
        dots == s_read(call.s, <<Kw("..")>>)
        tick == s_peek(dots.s, <<Lit(<<Backtick>>)>>)
        bracket == s_peek(tick.s, <<Kw("[")>>)
        inc == s_accept(bracket.s, <<Kw("++")>>)
        Let_dec(inc_) == OrElse(inc_, s_accept(inc_.s, <<Kw("--")>>))
        dec == Let_dec(inc)
        as == s_acceptType(dec.s, <<Kw("as")>>)
        optDot == s_accept(as.s, <<Kw("?.")>>)
        optName == s_accept(optDot.s, <<IDENTIFIER>>)
        dot == s_accept(optDot.s, <<Kw(".")>>)
        Let_targ(lastNotSp_, dot_) ==
            IF lastNotSp_ THEN this("parseTemplateArg", dot_.s, <<>>) ELSE Fail(dot_.s)
        targ == Let_targ(lastNotSp, dot)
        Let_close(targ_) == IF withinTag THEN s_peek(targ_.s, <<Kw(">")>>) ELSE Fail(targ_.s)
        close == Let_close(targ)
        tmp == s_read(close.s, <<OPERATOR>>)
        bang == s_acceptType(tmp.s, <<Kw("!")>>)
        Let_IN(call_, dots_, tick_, bracket_, dec_, as_, optDot_, optName_, dot_, targ_, close_, tmp_, bang_) ==
            IF justAfterNewLine(s) THEN [res |-> True(s), returned |-> FALSE]
            ELSE IF call_.r # "fail" THEN again(call_)
            ELSE IF dots_.r = "ok" THEN again(this("dotDotArgs", dots_.s, <<>>))
            ELSE IF tick_.r = "ok" THEN again(must(this("parseBacktickString", tick_.s, <<>>)))
            ELSE IF bracket_.r = "ok" THEN again(must(this("parseIndex", bracket_.s, <<>>)))
            ELSE IF dec_.r = "ok" THEN again(dec_)
            ELSE IF as_.r = "ok" THEN again(must(this("parseType", as_.s, <<TRUE>>)))
            ELSE IF optDot_.r = "ok" THEN again(must(OrElse(optName_, this("parseIndex", optName_.s, <<>>))))
            ELSE IF dot_.r = "ok" THEN again(must(s_accept(dot_.s, <<IDENTIFIER>>)))
            ELSE IF targ_.r # "fail" THEN again(targ_)
            ELSE IF close_.r = "ok" THEN [res |-> True(close_.s), returned |-> TRUE]
            ELSE IF tmp_.r = "ok"
            THEN [res |-> this("operatorTail", tmp_.s, <<tmp_.v[1], withinTag>>), returned |-> TRUE]
            ELSE IF bang_.r = "ok" THEN again(bang_)
            ELSE [res |-> True(bang_.s), returned |-> FALSE]
    IN  Let_IN(call, dots, tick, bracket, dec, as, optDot, optName, dot, targ, close, tmp, bang)

\* Parser.parseExpression: the `?` after an expression.
ternary(s) ==
    LET quest == s_read(s, <<Kw("?")>>)
        snap == snapshot(quest.s)
        then == this("parseExpression", s_emit(quest.s, <<Out("?")>>), <<FALSE>>)
        colon == must(s_accept(then.s, <<Kw(":")>>))
        else == must(this("parseExpression", colon.s, <<FALSE>>))
    IN  IF quest.r # "ok" THEN True(quest.s)
        ELSE Try(then,
             IF then.r = "ok" THEN Try(colon, Try(else, True(else.s)))
             ELSE True(s_emit(revertOutput(then.s, snap), <<Out("!=null")>>)))

\* Parser.parseExpression(s, withinTag)
parseExpression(s, withinTag) ==
    LET prefixes == this("prefixLoop", s, <<FALSE>>)
        operand == this("primary", prefixes.s, <<>>)
        post == this("postfixLoop", operand.s, <<withinTag>>)
    IN  IF operand.r = "throw" THEN operand
        ELSE IF operand.r = "fail"
        THEN IF prefixes.required THEN must(False(operand.s)) ELSE False(operand.s)
        ELSE IF post.returned THEN post.res
        ELSE this("ternary", post.res.s, <<>>)

\* Parser.parseType: while (s.acceptType('[')) ...
typeArrays(s) ==
    LET open == s_acceptType(s, <<Kw("[")>>)
        inner == this("parseType", open.s, <<TRUE>>)
        close == must(s_acceptType(inner.s, <<Kw("]")>>))
    IN  IF open.r # "ok" THEN True(open.s)
        ELSE Try(inner, Try(close, this("typeArrays", close.s, <<>>)))

\* Parser.parseType: the while(true) loop over `or`, `and` and `is`.
typeUnions(s) ==
    LET or == acceptTypeFunc(s, s_read(s, <<Kw("or")>>))
        and == acceptTypeFunc(or.s, s_read(or.s, <<Kw("and")>>))
        is == s_acceptType(and.s, <<Kw("is")>>)
        s1 == IF or.r = "ok" THEN (IF ~options.js THEN s_emit(or.s, <<Out("|")>>) ELSE or.s)
              ELSE IF and.r = "ok"
              THEN (IF ~options.js THEN s_emit(and.s, <<Out("&")>>) ELSE and.s)
              ELSE is.s
        type == must(this("parseType", s1, <<FALSE>>))
    IN  IF or.r # "ok" /\ and.r # "ok" /\ is.r # "ok" THEN True(is.s)
        ELSE Try(type, this("typeUnions", type.s, <<>>))

\* Parser.parseType: if (s.accept('extends')) ...
typeExtends(s) ==
    LET ext == s_accept(s, <<Kw("extends")>>)
        t1 == must(this("parseType", ext.s, <<TRUE>>))
        quest == must(s_acceptType(t1.s, <<Kw("?")>>))
        t2 == must(this("parseType", quest.s, <<TRUE>>))
        colon == must(s_acceptType(t2.s, <<Kw(":")>>))
        t3 == must(this("parseType", colon.s, <<TRUE>>))
    IN  IF ext.r # "ok" THEN True(ext.s)
        ELSE Try(t1, Try(quest, Try(t2, Try(colon, Try(t3, True(t3.s))))))

\* Parser.parseType from its first while loop on.
typeTail(s) ==
    LET arrays == this("typeArrays", s, <<>>)
        unions == this("typeUnions", arrays.s, <<>>)
    IN  Try(arrays, Try(unions, this("typeExtends", unions.s, <<>>)))

\* Parser.parseType(s, allowFunction)
parseType(s, allowFunction) ==
    LET in == s_peek(s, <<Kw("in")>>)
        of == s_peek(in.s, <<Kw("of")>>)
        typeof == s_acceptType(of.s, <<Kw("typeof")>>)
        Let_query(typeof_) ==
            must(acceptTypeFunc(typeof_.s, this("parseExpression", typeof_.s, <<FALSE>>)))
        query == Let_query(typeof)
        keyof == s_acceptType(typeof.s, <<Kw("keyof")>>)
        required == keyof.r = "ok"
        name == s_acceptType(keyof.s, <<IDENTIFIER>>)
        Let_targs(name_) ==
            acceptTypeFunc(name_.s,
                s_parseGroup(name_.s, [NoOpts EXCEPT !.open = Out("<"), !.close = Out(">"),
                                                  !.next = Out(",")], [f |-> "type"]).res)
        targs == Let_targs(name)
        Let_object(name_) ==
            acceptTypeFunc(name_.s,
               s_parseGroup(name_.s, [NoOpts EXCEPT !.open = Out("{"), !.close = Out("}"),
                                                 !.next = Out(","), !.allowImplicit = TRUE],
                          [f |-> "typeObjectEntry"]).res)
        object == Let_object(name)
        Let_tuple(object_) ==
            OrElse(object_, acceptTypeFunc(object_.s,
                s_parseGroup(object_.s, [NoOpts EXCEPT !.open = Out("["), !.close = Out("]"),
                                                    !.next = Out(",")], [f |-> "type"]).res))
        tuple == Let_tuple(object)
        Let_func(tuple_) ==
            IF tuple_.r = "fail" /\ allowFunction
            THEN acceptTypeFunc(tuple_.s, this("parseFuncParams", tuple_.s, <<FALSE, FALSE>>))
            ELSE tuple_
        func == Let_func(tuple)
        isFunc == tuple.r = "fail" /\ func.r = "ok"
        colon == s_read(func.s, <<Kw(":")>>)
        Let_result(colon_) ==
            must(this("parseType", IF ~options.js THEN s_emit(colon_.s, <<Out("=>")>>) ELSE colon_.s, <<TRUE>>))
        result == Let_result(colon)
        paren == s_acceptType(func.s, <<Kw("(")>>)
        inner == must(this("parseType", paren.s, <<TRUE>>))
        close == must(s_acceptType(inner.s, <<Kw(")")>>))
        number == s_acceptType(paren.s, <<NUMBER>>)
        Let_string(number_) == OrElse(number_, s_acceptType(number_.s, <<STRING_RE>>))
        string == Let_string(number)
        Let_IN(in_, of_, typeof_, query_, required_, name_, targs_, func_, isFunc_, colon_, result_, paren_, inner_, close_, string_) ==
            IF in_.r = "ok" THEN False(in_.s)
            ELSE IF of_.r = "ok" THEN False(of_.s)
            ELSE IF typeof_.r = "ok" THEN Try(query_, True(query_.s))
            ELSE IF name_.r = "ok" THEN Try(targs_, this("typeTail", targs_.s, <<>>))
            ELSE IF func_.r = "throw" THEN func_
            ELSE IF isFunc_
            THEN IF colon_.r = "ok" THEN Try(result_, True(result_.s)) ELSE True(colon_.s)
            ELSE IF func_.r = "ok" THEN this("typeTail", func_.s, <<>>)
            ELSE IF paren_.r = "ok" THEN Try(inner_, Try(close_, this("typeTail", close_.s, <<>>)))
            ELSE IF string_.r = "ok" THEN this("typeTail", string_.s, <<>>)
            ELSE IF required_ THEN must(False(string_.s))
            ELSE False(string_.s)
    IN  Let_IN(in, of, typeof, query, required, name, targs, func, isFunc, colon, result, paren, inner, close, string)

\* { jsOpen: '{', jsClose: '}', next: ';', jsNext: null, allowImplicit: true }
BlockOpts == [NoOpts EXCEPT !.jsOpen = Out("{"), !.jsClose = Out("}"), !.next = Out(";"),
                            !.jsNext = ENull, !.allowImplicit = TRUE]

\* Parser.parseMethod: the item closure of a constructor body with property
\* parameters; cl holds done, isDerived and propArgs.
constructorItem(cl, s) ==
    LET super == IF ~cl.done /\ cl.isDerived THEN s_peek(s, <<Kw("super"), Kw("(")>>) ELSE Fail(s)
        first == IF super.r = "ok" THEN must(this("parseStatement", super.s, <<>>)) ELSE super
        assign == ~cl.done /\ (~cl.isDerived \/ first.r = "ok")
        s1 == IF assign THEN s_emit(first.s, <<EStr(cl.propArgs)>>) ELSE first.s
    IN  IF first.r = "throw" THEN Item(first, cl)
        ELSE Item(s_recoverErrors(s1, this("parseStatement", s1, <<>>)), [cl EXCEPT !.done = @ \/ assign])

\* Parser.parseMethod(s, typeOnly, isDerived); typeOnly0 is the argument.
parseMethod(s, typeOnly0, isDerived) ==
    LET initSnap == snapshot(s)
        abstract1 == IF typeOnly0 THEN True(s) ELSE s_acceptType(s, <<Kw("abstract")>>)
        public == s_acceptType(abstract1.s, <<Kw("public")>>)
        Let_private(public_) == OrElse(public_, s_acceptType(public_.s, <<Kw("private")>>))
        private == Let_private(public)
        Let_protected(private_) == OrElse(private_, s_acceptType(private_.s, <<Kw("protected")>>))
        protected == InOrder(<<public, private, Let_protected(private)>>)
        Let_abstract2(abstract1_, protected_) ==
            IF abstract1_.r = "ok" THEN True(protected_.s)
            ELSE s_acceptType(protected_.s, <<Kw("abstract")>>)
        abstract2 == Let_abstract2(abstract1, protected)
        typeOnly == abstract2.r = "ok"
        snap == IF options.js /\ typeOnly THEN snapshot(abstract2.s) ELSE NoSnap
        isGet == s_peek(abstract2.s, <<Kw("get"), IDENTIFIER>>)
        isSet == s_peek(isGet.s, <<Kw("set"), IDENTIFIER>>)
        Let_accessor(isGet_, isSet_) ==
            IF isGet_.r = "ok" THEN s_accept(isGet_.s, <<Kw("get")>>)
            ELSE IF isSet_.r = "ok" THEN s_accept(isSet_.s, <<Kw("set")>>)
            ELSE isSet_
        accessor == Let_accessor(isGet, isSet)
        static == s_accept(accessor.s, <<Kw("static")>>)
        Let_staticBlock(static_) ==
            IF static_.r = "ok" THEN this("parseBlock", static_.s, <<>>) ELSE static_
        staticBlock == Let_staticBlock(static)
        async == s_accept(staticBlock.s, <<Kw("async")>>)
        star == s_accept(async.s, <<Kw("*")>>)
        name == s_accept(star.s, <<IDENTIFIER>>)
        bracket == s_accept(name.s, <<Kw("[")>>)
        key == must(this("parseExpression", bracket.s, <<FALSE>>))
        keyEnd == must(s_accept(key.s, <<Kw("]")>>))
        Let_member(initSnap_, name_, bracket_, key_, keyEnd_) ==
            IF name_.r = "ok" THEN name_
            ELSE IF bracket_.r = "ok" THEN Try(key_, keyEnd_)
            ELSE IF hasOutput(bracket_.s, initSnap_) THEN must(False(bracket_.s))
            ELSE False(bracket_.s)
        member == Let_member(initSnap, name, bracket, key, keyEnd)
        angle == s_peek(member.s, <<Kw("<")>>)
        Let_bar(angle_) == OrElse(angle_, s_peek(angle_.s, <<Kw("|")>>))
        bar == Let_bar(angle)
        colon == s_acceptType(bar.s, <<Kw(":")>>)
        Let_type(colon_) ==
            IF colon_.r = "ok" THEN must(this("parseType", colon_.s, <<TRUE>>)) ELSE colon_
        type == Let_type(colon)
        eq == s_accept(type.s, <<Kw("=")>>)
        Let_init(eq_) ==
            IF eq_.r = "ok" THEN must(this("parseExpression", eq_.s, <<FALSE>>)) ELSE eq_
        init == Let_init(eq)
        tpl == this("parseTemplateDef", bar.s, <<>>)
        Let_isConstructor(name_) == name_.r = "ok" /\ name_.v[1] = Spell("constructor")
        isConstructor == Let_isConstructor(name)
        propArgs == must(this("parseFuncParams", tpl.s, <<isConstructor, FALSE>>))
        isString == propArgs.v # <<>>
        ftype == this("parseFuncType", propArgs.s, <<>>)
        Let_s1(snap_, ftype_) == IF snap_.live THEN revertOutput(ftype_.s, snap_) ELSE ftype_.s
        s1 == Let_s1(snap, ftype)
        Let_body(propArgs_, isString_, ftype_) ==
            IF ~isString_ THEN this("parseBlock", ftype_.s, <<>>)
            ELSE s_parseGroup(ftype_.s, BlockOpts,
                            [f |-> "constructor", done |-> FALSE, isDerived |-> isDerived,
                             propArgs |-> propArgs_.v[1]]).res
        body == Let_body(propArgs, isString, ftype)
        bodySnap == snapshot(body.s)
        s2 == s_emit(body.s, <<Out("{")>>)
        super == s_peek(s2, <<Kw("super"), Kw("(")>>)
        Let_s3(propArgs_, isString_, super_) ==
            IF super_.r = "ok"
            THEN (IF isString_ THEN s_emit(super_.s, <<EStr(propArgs_.v[1])>>) ELSE super_.s)
            ELSE s_emit(super_.s, <<Out("return")>>)
        s3 == Let_s3(propArgs, isString, super)
        expr == this("parseExpression", s3, <<FALSE>>)
        s4 == revert(expr.s, bodySnap)
        Let_IN(typeOnly_, static_, staticBlock_, member_, bar_, type_, init_, tpl_, propArgs_, ftype_, s1_, body_, expr_, s4_) ==
            IF static_.r = "ok" /\ staticBlock_.r # "fail" THEN staticBlock_
            ELSE IF member_.r # "ok" THEN member_
            ELSE IF bar_.r # "ok" THEN Try(type_, Try(init_, True(init_.s)))
            ELSE Try(tpl_, Try(propArgs_, Try(ftype_,
                 IF typeOnly_ THEN True(s1_)
                 ELSE Try(body_,
                      IF body_.r = "ok" THEN True(body_.s)
                      ELSE Try(expr_,
                           IF expr_.r = "ok" THEN True(s_emit(expr_.s, <<Out("}")>>))
                           ELSE True(IF ~options.js THEN s_emit(s4_, <<Out(";")>>) ELSE s4_))))))
    IN  Let_IN(typeOnly, static, staticBlock, member, bar, type, init, tpl, propArgs, ftype, s1, body, expr, s4)

\* Parser.parseClass: while (s.acceptType('implements')) s.must(this.parseType(s));
implementsLoop(s) ==
    LET impl == s_acceptType(s, <<Kw("implements")>>)
        type == must(this("parseType", impl.s, <<TRUE>>))
    IN  IF impl.r # "ok" THEN True(impl.s) ELSE Try(type, this("implementsLoop", type.s, <<>>))

\* Parser.parseClass(s)
parseClass(s) ==
    LET isIface == IF options.js THEN s_peek(s, <<Kw("interface")>>) ELSE Fail(s)
        Let_snap(isIface_) == IF isIface_.r = "ok" THEN snapshot(isIface_.s) ELSE NoSnap
        snap == Let_snap(isIface)
        abstract == s_acceptType(isIface.s, <<Kw("abstract")>>)
        interface == s_acceptType(abstract.s, <<Kw("interface")>>)
        Let_head(abstract_, interface_) ==
            IF abstract_.r = "ok" THEN must(s_accept(abstract_.s, <<Kw("class")>>))
            ELSE IF interface_.r = "ok" THEN interface_
            ELSE s_accept(interface_.s, <<Kw("class")>>)
        head == Let_head(abstract, interface)
        isInterface == abstract.r # "ok" /\ interface.r = "ok"
        name == s_accept(head.s, <<IDENTIFIER>>)
        tpl == this("parseTemplateDef", name.s, <<>>)
        extends == s_accept(tpl.s, <<Kw("extends")>>)
        isDerived == extends.r = "ok"
        Let_base(extends_, isDerived_) ==
            IF isDerived_ THEN must(this("parseExpression", extends_.s, <<FALSE>>)) ELSE extends_
        base == Let_base(extends, isDerived)
        impl == this("implementsLoop", base.s, <<>>)
        body == must(s_parseGroup(impl.s, BlockOpts,
                                [f |-> "method", isInterface |-> isInterface,
                                 isDerived |-> isDerived]).res)
        Let_s1(snap_, body_) == IF snap_.live THEN revertOutput(body_.s, snap_) ELSE body_.s
        s1 == Let_s1(snap, body)
        Let_IN(head_, tpl_, base_, impl_, body_, s1_) ==
            IF head_.r = "fail" THEN False(head_.s)
            ELSE Try(head_, Try(tpl_, Try(base_, Try(impl_, Try(body_, True(s1_))))))
    IN  Let_IN(head, tpl, base, impl, body, s1)

\* Parser.parseTemplateDef: the while(true) loop.
templateParams(s) ==
    LET name == must(s_acceptType(s, <<IDENTIFIER>>))
        ext == s_acceptType(name.s, <<Kw("extends")>>)
        bound == IF ext.r = "ok" THEN must(this("parseType", ext.s, <<TRUE>>)) ELSE ext
        comma == s_acceptType(bound.s, <<Kw(",")>>)
    IN  Try(name, Try(bound,
        IF comma.r = "ok" THEN this("templateParams", comma.s, <<>>) ELSE True(comma.s)))

\* Parser.parseTemplateDef(s)
parseTemplateDef(s) ==
    LET open == s_acceptType(s, <<Kw("<")>>)
        params == this("templateParams", open.s, <<>>)
        close == must(s_acceptType(params.s, <<Kw(">")>>))
    IN  IF open.r # "ok" THEN False(open.s)
        ELSE Try(params, Try(close, True(close.s)))

\* Parser.parseBlock(s)
parseBlock(s) == s_parseGroup(s, BlockOpts, [f |-> "statement"]).res

\* Parser.parseClassicFuncExprBody(s)
parseClassicFuncExprBody(s) ==
    LET snap == snapshot(s)
        expr == this("parseExpression", s_emit(s, <<Out("{return")>>), <<FALSE>>)
    IN  Try(expr,
        IF expr.r = "fail" THEN False(revert(expr.s, snap))
        ELSE True(s_emit(expr.s, <<Out("}")>>)))

\* Parser.parseArrowFuncExprBody(s)
parseArrowFuncExprBody(s) ==
    LET snap == snapshot(s)
        object == this("parseLiteralObject", s_emit(s, <<Out("(")>>), <<>>)
    IN  Try(object,
        IF object.r = "ok" THEN True(s_emit(object.s, <<Out(")")>>))
        ELSE this("parseExpression", revert(object.s, snap), <<FALSE>>))

\* Parser.parseFuncType(s)
parseFuncType(s) ==
    LET colon == s_acceptType(s, <<Kw(":")>>)
        asserts == s_acceptType(colon.s, <<Kw("asserts")>>)
        type == must(this("parseType", asserts.s, <<TRUE>>))
    IN  IF colon.r # "ok" THEN False(colon.s) ELSE Try(type, True(type.s))

\* Parser.parseExpressionSeq(s)
parseExpressionSeq(s) ==
    LET first == this("parseExpression", s, <<FALSE>>)
    IN  IF first.r # "ok" THEN first ELSE this("commaExprs", first.s, <<>>)

\* Parser.parseParenthesised(s)
parseParenthesised(s) ==
    LET open == s_accept(s, <<Kw("(")>>)
        seq == must(this("parseExpressionSeq", open.s, <<>>))
        close == must(s_accept(seq.s, <<Kw(")")>>))
    IN  IF open.r # "ok" THEN False(open.s) ELSE Try(seq, Try(close, True(close.s)))

\* Parser.parseIndex(s)
parseIndex(s) ==
    LET open == s_accept(s, <<Kw("[")>>)
        seq == must(this("parseExpressionSeq", open.s, <<>>))
        close == must(s_accept(seq.s, <<Kw("]")>>))
    IN  IF open.r # "ok" THEN False(open.s) ELSE Try(seq, Try(close, True(close.s)))

\* Parser.parseBacktickString: the while(true) loop.
backtickParts(s) ==
    LET m == must(s_accept(s, <<WITHIN_BACKTICK_STRING>>))
        expr == must(this("parseExpression", m.s, <<FALSE>>))
        close == must(s_accept(expr.s, <<Kw("}")>>))
    IN  Try(m,
        IF m.v[1][Len(m.v[1])] = Backtick THEN True(m.s)
        ELSE Try(expr, Try(close, this("backtickParts", close.s, <<>>))))

\* Parser.parseBacktickString(s)
parseBacktickString(s) ==
    LET open == s_accept(s, <<Lit(<<Backtick>>)>>)
    IN  IF open.r # "ok" THEN False(open.s) ELSE this("backtickParts", open.s, <<>>)

\* The item closure of parseLiteralArray and of a call's argument list.
argumentItem(s) ==
    LET dots == s_accept(s, <<Kw("...")>>)
    IN  IF dots.r = "ok" THEN must(this("parseExpression", dots.s, <<FALSE>>))
        ELSE this("parseExpression", dots.s, <<FALSE>>)

\* Parser.parseLiteralArray(s)
parseLiteralArray(s) ==
    s_parseGroup(s, [NoOpts EXCEPT !.open = Out("["), !.close = Out("]"), !.next = Out(",")],
               [f |-> "argument"]).res

\* Parser.parseLiteralObject: the item closure.
objectItem(s) ==
    LET dots == s_accept(s, <<Kw("...")>>)
        spread == must(this("parseExpression", dots.s, <<FALSE>>))
        star == s_accept(dots.s, <<Kw("*")>>)
        bracket == s_accept(star.s, <<Kw("[")>>)
        computed == must(this("parseExpression", bracket.s, <<FALSE>>))
        close == must(s_accept(computed.s, <<Kw("]")>>))
        k1 == s_accept(bracket.s, <<IDENTIFIER>>)
        Let_k2(k1_) == OrElse(k1_, s_accept(k1_.s, <<NUMBER>>))
        k2 == Let_k2(k1)
        Let_k3(k2_) == OrElse(k2_, s_accept(k2_.s, <<STRING_RE>>))
        k3 == Let_k3(k2)
        Let_k4(k3_) == OrElse(k3_, this("parseBacktickString", k3_.s, <<>>))
        k4 == InOrder(<<k1, k2, k3, Let_k4(k3)>>)
        key == IF bracket.r = "ok" THEN Try(computed, close) ELSE k4
        tpl == this("parseTemplateDef", key.s, <<>>)
        Let_params(tpl_) ==
            IF tpl_.r = "ok" THEN must(this("parseFuncParams", tpl_.s, <<FALSE, FALSE>>))
            ELSE IF tpl_.r = "fail" THEN this("parseFuncParams", tpl_.s, <<FALSE, FALSE>>)
            ELSE tpl_
        params == Let_params(tpl)
        rcolon == s_acceptType(params.s, <<Kw(":")>>)
        Let_rtype(rcolon_) ==
            IF rcolon_.r = "ok" THEN this("parseType", rcolon_.s, <<TRUE>>) ELSE rcolon_
        rtype == Let_rtype(rcolon)
        block == must(this("parseBlock", rtype.s, <<>>))
        colon == s_accept(params.s, <<Kw(":")>>)
        Let_value(colon_) ==
            IF colon_.r = "ok" THEN must(this("parseExpression", colon_.s, <<FALSE>>)) ELSE colon_
        value == Let_value(colon)
        Let_IN(dots_, spread_, key_, params_, rtype_, block_, value_) ==
            IF dots_.r = "ok" THEN Try(spread_, True(spread_.s))
            ELSE IF key_.r # "ok" THEN key_
            ELSE Try(params_,
                 IF params_.r = "ok" THEN Try(rtype_, Try(block_, True(block_.s)))
                 ELSE Try(value_, True(value_.s)))
    IN  Let_IN(dots, spread, key, params, rtype, block, value)

\* Parser.parseLiteralObject(s)
parseLiteralObject(s) ==
    s_parseGroup(s, [NoOpts EXCEPT !.open = Out("{"), !.close = Out("}"), !.next = Out(",")],
               [f |-> "object"]).res

\* Parser.parseTemplateArg: while (s.acceptType(',')) if (!this.parseType(s)) ...
templateArgs(s) ==
    LET comma == s_acceptType(s, <<Kw(",")>>)
        type == this("parseType", comma.s, <<TRUE>>)
    IN  IF comma.r # "ok" THEN True(comma.s)
        ELSE IF type.r # "ok" THEN type
        ELSE this("templateArgs", type.s, <<>>)

\* Parser.parseTemplateArg(s)
parseTemplateArg(s) ==
    LET snap == snapshot(s)
        open == s_acceptType(s, <<Kw("<")>>)
        first == this("parseType", open.s, <<TRUE>>)
        more == this("templateArgs", first.s, <<>>)
        close == s_acceptType(more.s, <<Kw(">")>>)
        dot == s_peek(close.s, <<Kw(".")>>)
        paren == OrElse(dot, s_peek(dot.s, <<Kw("(")>>))
        follow == OrElse(paren, s_readNewline(paren.s))
    IN  IF open.r # "ok" THEN False(open.s)
        ELSE Try(first,
             IF first.r = "fail" THEN False(revert(first.s, snap))
             ELSE Try(more,
                  IF more.r = "fail" THEN False(revert(more.s, snap))
                  ELSE IF close.r # "ok" THEN False(revert(close.s, snap))
                  ELSE Try(follow,
                       IF follow.r = "ok" THEN True(follow.s)
                       ELSE False(revert(follow.s, snap)))))

\* Parser.parseTypeObjectEntry(s)
parseTypeObjectEntry(s) ==
    LET bracket == s_acceptType(s, <<Kw("[")>>)
        iname == must(s_acceptType(bracket.s, <<IDENTIFIER>>))
        icolon == must(s_acceptType(iname.s, <<Kw(":")>>))
        itype == must(this("parseType", icolon.s, <<TRUE>>))
        iclose == must(s_acceptType(itype.s, <<Kw("]")>>))
        k1 == s_acceptType(bracket.s, <<IDENTIFIER>>)
        k2 == OrElse(k1, s_acceptType(k1.s, <<NUMBER>>))
        k3 == OrElse(k2, s_acceptType(k2.s, <<STRING_RE>>))
        key == IF bracket.r = "ok" THEN Try(iname, Try(icolon, Try(itype, iclose))) ELSE k3
        colon == must(s_acceptType(key.s, <<Kw(":")>>))
        type == must(this("parseType", colon.s, <<TRUE>>))
    IN  IF key.r # "ok" THEN key
        ELSE Try(colon, Try(type, True(type.s)))

\* parseInt(cs) for a match of NUMBER: an optional sign, then hexadecimal digits
\* after 0x and decimal digits otherwise, up to the first other character.
HexValue(c) ==
    CASE c \in {"a", "A"} -> 10 [] c \in {"b", "B"} -> 11 [] c \in {"c", "C"} -> 12
      [] c \in {"d", "D"} -> 13 [] c \in {"e", "E"} -> 14 [] c \in {"f", "F"} -> 15
      [] c = "0" -> 0 [] c = "1" -> 1 [] c = "2" -> 2 [] c = "3" -> 3 [] c = "4" -> 4
      [] c = "5" -> 5 [] c = "6" -> 6 [] c = "7" -> 7 [] c = "8" -> 8 [] c = "9" -> 9
      [] OTHER -> 16

RECURSIVE DigitsValue(_, _, _, _)
DigitsValue(cs, k, radix, acc) ==
    IF k > Len(cs) \/ HexValue(cs[k]) >= radix THEN acc
    ELSE DigitsValue(cs, k + 1, radix, acc * radix + HexValue(cs[k]))

parseInt(cs) ==
    LET signed == cs # <<>> /\ cs[1] \in {"+", "-"}
        k == IF signed THEN 2 ELSE 1
        hex == Len(cs) > k /\ cs[k] = "0" /\ cs[k + 1] \in {"x", "X"}
        n == IF hex THEN DigitsValue(cs, k + 2, 16, 0) ELSE DigitsValue(cs, k, 10, 0)
    IN  IF signed /\ cs[1] = "-" THEN 0 - n ELSE n

\* String(n) for an integer n
RECURSIVE NatToString(_)
NatToString(n) ==
    LET d == <<"0","1","2","3","4","5","6","7","8","9">>[(n % 10) + 1]
    IN  IF n < 10 THEN <<d>> ELSE Append(NatToString(n \div 10), d)

NumberToString(n) == IF n < 0 THEN <<"-">> \o NatToString(0 - n) ELSE NatToString(n)

\* Parser.parseStatement(s)
parseStatement(s) ==
    LET snap == snapshot(s)
        a1 == this("parseReturn", s, <<>>)
        Let_a2(a1_) == OrElse(a1_, this("parseThrow", a1_.s, <<>>))
        a2 == Let_a2(a1)
        Let_a3(a2_) == OrElse(a2_, this("parseTypeDecl", a2_.s, <<>>))
        a3 == Let_a3(a2)
        Let_a4(a3_) == OrElse(a3_, this("parseExport", a3_.s, <<>>))
        a4 == Let_a4(a3)
        Let_a5(a4_) == OrElse(a4_, this("parseImport", a4_.s, <<>>))
        a5 == Let_a5(a4)
        Let_a6(a5_) == OrElse(a5_, this("parseDoWhile", a5_.s, <<>>))
        a6 == InOrder(<<a1, a2, a3, a4, a5, Let_a6(a5)>>)
        b1 == this("parseIfWhile", a6.s, <<>>)
        Let_b2(b1_) == OrElse(b1_, this("parseFor", b1_.s, <<>>))
        b2 == Let_b2(b1)
        Let_b3(b2_) == OrElse(b2_, this("parseTry", b2_.s, <<>>))
        b3 == Let_b3(b2)
        Let_b4(b3_) == OrElse(b3_, this("parseFunction", b3_.s, <<TRUE>>))
        b4 == Let_b4(b3)
        Let_b5(b4_) == OrElse(b4_, this("parseClass", b4_.s, <<>>))
        b5 == Let_b5(b4)
        Let_b6(b5_) == OrElse(b5_, this("parseSwitch", b5_.s, <<>>))
        b6 == Let_b6(b5)
        Let_b7(b6_) == OrElse(b6_, this("parseEnum", b6_.s, <<>>))
        b7 == Let_b7(b6)
        Let_b8(b7_) == OrElse(b7_, this("parseDeclare", b7_.s, <<>>))
        b8 == InOrder(<<b1, b2, b3, b4, b5, b6, b7, Let_b8(b7)>>)
        c1 == this("parseVarDecl", b8.s, <<TRUE>>)
        Let_c2(c1_) == OrElse(c1_, this("parseExpressionSeq", c1_.s, <<>>))
        c2 == Let_c2(c1)
        terminated(t) == IF hasOutput(t, snap) THEN s_emit(t, <<Out(";")>>) ELSE t
        Let_IN(a6_, b8_, c2_) ==
            IF a6_.r = "throw" THEN a6_
            ELSE IF a6_.r = "ok" THEN True(terminated(a6_.s))
            ELSE IF b8_.r = "throw" THEN b8_
            ELSE IF b8_.r = "ok" THEN True(b8_.s)
            ELSE IF c2_.r = "throw" THEN c2_
            ELSE IF c2_.r = "ok" THEN True(terminated(c2_.s))
            ELSE False(c2_.s)
    IN  Let_IN(a6, b8, c2)

\* Parser.parseTypeDecl(s)
parseTypeDecl(s) ==
    LET type == s_acceptType(s, <<Kw("type")>>)
        name == must(s_acceptType(type.s, <<IDENTIFIER>>))
        tpl == this("parseTemplateDef", name.s, <<>>)
        eq == s_acceptType(tpl.s, <<Kw("=")>>)
        def == IF eq.r = "ok" THEN must(this("parseType", eq.s, <<TRUE>>)) ELSE eq
    IN  IF type.r # "ok" THEN False(type.s)
        ELSE Try(name, Try(tpl, Try(def, True(def.s))))

\* Parser.parseExport(s)
parseExport(s) ==
    LET isExport == s_peek(s, <<Kw("export")>>)
        isType == s_peek(isExport.s, <<Kw("export"), Kw("type")>>)
        tExport == must(s_acceptType(isType.s, <<Kw("export")>>))
        tDecl == must(this("parseTypeDecl", tExport.s, <<>>))
        isIface == s_peek(isType.s, <<Kw("export"), Kw("interface")>>)
        iExport == must(s_acceptType(isIface.s, <<Kw("export")>>))
        iDecl == must(this("parseClass", iExport.s, <<>>))
        export == s_accept(isIface.s, <<Kw("export")>>)
        default == s_accept(export.s, <<Kw("default")>>)
        d1 == this("parseExpression", default.s, <<FALSE>>)
        Let_d2(d1_) == must(OrElse(d1_, this("parseClass", d1_.s, <<>>)))
        d2 == Let_d2(d1)
        e1 == this("parseVarDecl", default.s, <<TRUE>>)
        Let_e2(e1_) == OrElse(e1_, this("parseClass", e1_.s, <<>>))
        e2 == Let_e2(e1)
        Let_e3(e2_) == OrElse(e2_, this("parseLiteralObject", e2_.s, <<>>))
        e3 == InOrder(<<e1, e2, Let_e3(e2)>>)
        Let_e4(e3_) == must(OrElse(e3_, this("parseFunction", e3_.s, <<TRUE>>)))
        e4 == Let_e4(e3)
        what == IF default.r = "ok" THEN d2 ELSE e4
        Let_IN(isExport_, isType_, tExport_, tDecl_, isIface_, iExport_, iDecl_, export_, what_) ==
            IF isExport_.r # "ok" THEN False(isExport_.s)
            ELSE IF isType_.r = "ok" THEN Try(tExport_, Try(tDecl_, True(tDecl_.s)))
            ELSE IF isIface_.r = "ok" THEN Try(iExport_, Try(iDecl_, True(iDecl_.s)))
            ELSE IF export_.r # "ok" THEN False(export_.s)
            ELSE Try(what_, True(what_.s))
    IN  Let_IN(isExport, isType, tExport, tDecl, isIface, iExport, iDecl, export, what)

\* Parser.parseEnum: the item closure; cl holds identifier and nextNum.
enumItem(cl, s) ==
    LET name == s_read(s, <<IDENTIFIER>>)
        eq == s_read(name.s, <<Kw("=")>>)
        num == IF eq.r = "ok" THEN must(s_read(eq.s, <<NUMBER>>)) ELSE eq
        nextNum == IF eq.r = "ok" /\ num.r = "ok" THEN parseInt(num.v[1]) ELSE cl.nextNum
        id == cl.identifier
        text == IF options.js
                THEN id \o Spell("[(") \o id \o Spell("[\"") \o name.v[1] \o Spell("\"] = ")
                        \o NumberToString(nextNum) \o Spell(")] = \"") \o name.v[1] \o Spell("\";")
                ELSE name.v[1] \o Spell(" = ") \o NumberToString(nextNum)
    IN  IF name.r # "ok" THEN Item(False(name.s), cl)
        ELSE Item(Try(num, True(s_emit(num.s, <<EStr(text)>>))),
                  [cl EXCEPT !.nextNum = nextNum + 1])

\* Parser.parseEnum(s)
parseEnum(s) ==
    LET enum == s_read(s, <<Kw("enum")>>)
        identifier == must(s_read(enum.s, <<IDENTIFIER>>))
        id == identifier.v[1]
        opts == [NoOpts EXCEPT
                    !.open = Out("{"), !.close = Out("}"), !.next = Out(","),
                    !.jsOpen = EStr(IF options.js
                                    THEN Spell("var ") \o id \o Spell(" = (function (") \o id
                                            \o Spell(") {")
                                    ELSE Spell("enum ") \o id \o Spell(" {")),
                    !.jsClose = IF options.js
                                THEN EStr(Spell("return ") \o id \o Spell(";})(") \o id
                                             \o Spell(" || {});"))
                                ELSE Out("}"),
                    !.jsNext = IF options.js THEN ENull ELSE Out(","),
                    !.allowImplicit = TRUE]
        group == must(s_parseGroup(identifier.s, opts,
                                 [f |-> "enum", identifier |-> id, nextNum |-> 0]).res)
    IN  IF enum.r # "ok" THEN False(enum.s)
        ELSE Try(identifier, group)

\* Parser.parseReturn(s)
parseReturn(s) ==
    LET return == s_accept(s, <<Kw("return")>>)
        yield == OrElse(return, s_accept(return.s, <<Kw("yield")>>))
        value == this("parseExpression", yield.s, <<FALSE>>)
    IN  IF yield.r # "ok" THEN False(yield.s) ELSE Try(value, True(value.s))

\* s.must(this.parseBlock(s) || this.parseStatement(s))
blockOrStatement(s) ==
    LET block == this("parseBlock", s, <<>>)
    IN  must(OrElse(block, this("parseStatement", block.s, <<>>)))

\* Parser.parseIfWhile(s)
parseIfWhile(s) ==
    LET if == s_accept(s, <<Kw("if")>>)
        name == OrElse(if, s_accept(if.s, <<Kw("while")>>))
        cond == must(this("parseExpression", s_emit(name.s, <<Out("(")>>), <<FALSE>>))
        then == this("blockOrStatement", s_emit(cond.s, <<Out(")")>>), <<>>)
        else == IF if.r = "ok" THEN s_accept(then.s, <<Kw("else")>>) ELSE Fail(then.s)
        other == IF else.r = "ok" THEN this("blockOrStatement", else.s, <<>>) ELSE else
    IN  IF name.r # "ok" THEN False(name.s)
        ELSE Try(cond, Try(then, Try(other, True(other.s))))

\* Parser.parseThrow(s)
parseThrow(s) ==
    LET throw == s_accept(s, <<Kw("throw")>>)
        value == must(this("parseExpression", throw.s, <<FALSE>>))
    IN  IF throw.r # "ok" THEN False(throw.s) ELSE Try(value, True(value.s))

\* Parser.parseDoWhile(s)
parseDoWhile(s) ==
    LET do == s_accept(s, <<Kw("do")>>)
        body == must(this("parseStatement", do.s, <<>>))
        while == must(s_accept(body.s, <<Kw("while")>>))
        cond == must(this("parseExpression", while.s, <<FALSE>>))
    IN  IF do.r # "ok" THEN False(do.s)
        ELSE Try(body, Try(while, Try(cond, True(cond.s))))

\* Parser.parseFor: `x ? s.read(';') : s.must(s.read(';'))` for a parse result x.
forSemicolon(x) ==
    LET semi == s_read(x.s, <<Kw(";")>>)
    IN  Try(x, IF x.r = "ok" THEN True(semi.s) ELSE must(semi))

\* Parser.parseFor: one pass of the for-loop over the last two clauses.
forClause(s) == forSemicolon(this("parseExpression", s_emit(s, <<Out(";")>>), <<FALSE>>))

\* Parser.parseFor(s)
parseFor(s) ==
    LET for == s_accept(s, <<Kw("for")>>)
        s1 == s_emit(for.s, <<Out("(")>>)
        snap == snapshot(s1)
        decl == this("parseVarDecl", s1, <<FALSE>>)
        Let_item(decl_) == OrElse(decl_, s_accept(decl_.s, <<IDENTIFIER>>))
        item == Let_item(decl)
        Let_of(item_) == IF item_.r = "ok" THEN s_accept(item_.s, <<Kw("of")>>) ELSE item_
        of == Let_of(item)
        Let_in(item_, of_) ==
            IF item_.r = "ok" THEN OrElse(of_, s_accept(of_.s, <<Kw("in")>>)) ELSE item_
        in == Let_in(item, of)
        isForOf == in.r = "ok"
        iterable == must(this("parseExpression", in.s, <<FALSE>>))
        s2 == revert(in.s, snap)
        init1 == this("parseVarDecl", s2, <<TRUE>>)
        Let_init(init1_) ==
            forSemicolon(OrElse(init1_, this("parseExpression", init1_.s, <<FALSE>>)))
        init == Let_init(init1)
        cond == this("forClause", init.s, <<>>)
        step == this("forClause", cond.s, <<>>)
        head == IF isForOf THEN iterable ELSE Try(init, Try(cond, step))
        s3 == s_emit(head.s, <<Out(")")>>)
        stmt == this("parseStatement", s3, <<>>)
        Let_body(stmt_) == must(OrElse(stmt_, this("parseBlock", stmt_.s, <<>>)))
        body == Let_body(stmt)
        Let_IN(for_, in_, head_, body_) ==
            IF for_.r # "ok" THEN False(for_.s)
            ELSE Try(in_, Try(head_, Try(body_, True(body_.s))))
    IN  Let_IN(for, in, head, body)

\* Parser.parseSwitch: the item closure (one case).
caseItem(s) ==
    LET star == s_read(s, <<Kw("*")>>)
        snap == snapshot(star.s)
        expr == this("parseExpression", s_emit(star.s, <<Out("case")>>), <<FALSE>>)
        s1 == IF star.r = "ok" THEN s_emit(star.s, <<Out("default: {")>>)
              ELSE s_emit(expr.s, <<Out(": {")>>)
        colon == s_read(s1, <<Kw(":")>>)
        group == s_parseGroup(colon.s, [NoOpts EXCEPT !.next = Out(";"), !.jsNext = ENull,
                                                    !.allowImplicit = TRUE],
                            [f |-> "statement"]).res
        body == IF group.r = "fail" THEN must(this("parseStatement", group.s, <<>>)) ELSE group
    IN  IF star.r # "ok" /\ expr.r = "throw" THEN expr
        ELSE IF star.r # "ok" /\ expr.r = "fail" THEN False(revertOutput(expr.s, snap))
        ELSE Try(body, True(s_emit(body.s, <<Out("break;}")>>)))

\* Parser.parseSwitch(s)
parseSwitch(s) ==
    LET switch == s_accept(s, <<Kw("switch")>>)
        expr == must(this("parseExpression", s_emit(switch.s, <<Out("(")>>), <<FALSE>>))
        group == must(s_parseGroup(s_emit(expr.s, <<Out(")")>>),
                                 [NoOpts EXCEPT !.jsOpen = Out("{"), !.jsClose = Out("}"),
                                                !.allowImplicit = TRUE],
                                 [f |-> "case"]).res)
    IN  IF switch.r # "ok" THEN False(switch.s)
        ELSE Try(expr, Try(group, True(group.s)))

\* Parser.parseImport: the item closure of a `{...}` import list.
importItem(s) ==
    LET name == s_accept(s, <<IDENTIFIER>>)
        as == s_accept(name.s, <<Kw("as")>>)
        alias == IF as.r = "ok" THEN must(s_accept(as.s, <<IDENTIFIER>>)) ELSE as
    IN  IF name.r # "ok" THEN False(name.s) ELSE Try(alias, True(alias.s))

\* pathStr.slice(1, -1)
Unquote(cs) == SubSeq(cs, 2, Len(cs) - 1)

\* Parser.parseImport after `import plugin` has been read. The plugin that
\* options.loadPlugin returns is one that changes nothing, and its option
\* literal evaluates without an error.
pluginImport(s, snap) ==
    LET pathStr == must(s_read(revertOutput(s, snap), <<STRING_RE>>))
        object == this("parseLiteralObject", pathStr.s, <<>>)
        s1 == IF object.r = "ok" THEN revertOutput(object.s, snap) ELSE object.s
    IN  Try(pathStr, Try(object,
        IF ~options.loadPlugin THEN Throw(s1, ParseError(s1.inPos, "Error"))
        ELSE True(clearTargetPos(s1))))

\* Parser.parseImport(s); options.transformImport, when set, returns its argument.
parseImport(s) ==
    LET snap == snapshot(s)
        import == s_accept(s, <<Kw("import")>>)
        plugin == s_read(import.s, <<Kw("plugin")>>)
        type == s_acceptType(plugin.s, <<Kw("type")>>)
        isTypeImport == type.r = "ok"
        star == s_accept(type.s, <<Kw("*")>>)
        as == must(s_accept(star.s, <<Kw("as")>>))
        space == must(s_accept(as.s, <<IDENTIFIER>>))
        group == s_parseGroup(star.s, [NoOpts EXCEPT !.open = Out("{"), !.close = Out("}"),
                                                   !.next = Out(","), !.allowImplicit = TRUE],
                            [f |-> "import"]).res
        Let_single(group_) ==
            IF group_.r = "fail" THEN must(s_accept(group_.s, <<IDENTIFIER>>)) ELSE group_
        single == Let_single(group)
        names == IF star.r = "ok" THEN Try(as, space) ELSE single
        from == must(s_accept(names.s, <<Kw("from")>>))
        stripped == must(s_read(revertOutput(from.s, snap), <<STRING_RE>>))
        url == must(s_read(from.s, <<STRING_RE>>))
        Let_path(from_, url_) ==
            IF options.transformImport
            THEN Try(url_, True(s_emit(url_.s, <<EStr(<<"\"">> \o Unquote(url_.v[1]) \o <<"\"">>)>>)))
            ELSE must(s_accept(from_.s, <<STRING_RE>>))
        path == Let_path(from, url)
        Let_IN(snap_, import_, plugin_, isTypeImport_, names_, from_, stripped_, path_) ==
            IF import_.r # "ok" THEN False(import_.s)
            ELSE IF plugin_.r = "ok" THEN this("pluginImport", plugin_.s, <<snap_>>)
            ELSE Try(names_, Try(from_,
                 IF isTypeImport_ /\ options.js THEN Try(stripped_, True(stripped_.s))
                 ELSE Try(path_, True(path_.s))))
    IN  Let_IN(snap, import, plugin, isTypeImport, names, from, stripped, path)

\* Parser.parseTry: if (!this.parseBlock(s)) { s.emit('{'); ...; s.emit('}'); }
tryBody(s) ==
    LET block == this("parseBlock", s, <<>>)
        stmt == must(this("parseStatement", s_emit(block.s, <<Out("{")>>), <<>>))
    IN  IF block.r # "fail" THEN block ELSE Try(stmt, True(s_emit(stmt.s, <<Out("}")>>)))

\* Parser.parseTry(s)
parseTry(s) ==
    LET try == s_accept(s, <<Kw("try")>>)
        body == this("tryBody", try.s, <<>>)
        catch == s_accept(body.s, <<Kw("catch")>>)
        name == s_accept(catch.s, <<IDENTIFIER>>)
        Let_colon(name_) == IF name_.r = "ok" THEN s_acceptType(name_.s, <<Kw(":")>>) ELSE name_
        colon == Let_colon(name)
        Let_type(colon_) ==
            IF colon_.r = "ok" THEN must(this("parseType", colon_.s, <<TRUE>>)) ELSE colon_
        type == Let_type(colon)
        Let_handler(catch_, type_) ==
            IF catch_.r = "ok" THEN Try(type_, this("tryBody", type_.s, <<>>)) ELSE catch_
        handler == Let_handler(catch, type)
        finally == s_accept(handler.s, <<Kw("finally")>>)
        Let_cleanup(finally_) ==
            IF finally_.r = "ok" THEN this("tryBody", finally_.s, <<>>) ELSE finally_
        cleanup == Let_cleanup(finally)
        handled == catch.r = "ok" \/ finally.r = "ok"
        Let_IN(try_, body_, handler_, cleanup_, handled_) ==
            IF try_.r # "ok" THEN False(try_.s)
            ELSE Try(body_, Try(handler_, Try(cleanup_,
                 True(IF handled_ THEN cleanup_.s ELSE s_emit(cleanup_.s, <<Out("catch{}")>>)))))
    IN  Let_IN(try, body, handler, cleanup, handled)

\* Parser.parseDeclare(s)
parseDeclare(s) ==
    LET declare == s_acceptType(s, <<Kw("declare")>>)
        enum == s_acceptType(declare.s, <<Kw("enum")>>)
        name == must(s_acceptType(enum.s, <<IDENTIFIER>>))
        snap == snapshot(name.s)
        block == must(this("parseBlock", name.s, <<>>))
    IN  IF declare.r # "ok" THEN False(declare.s)
        ELSE Try(name, Try(block, True(revertOutput(block.s, snap))))

\* itemFunc(): the closures given to parseGroup, by the place that makes them.
CallItem(cl, s) ==
    CASE cl.f = "param" -> paramItem(cl, s)
      [] cl.f = "constructor" -> constructorItem(cl, s)
      [] cl.f = "enum" -> enumItem(cl, s)
      [] cl.f = "type" -> Item(this("parseType", s, <<TRUE>>), cl)
      [] cl.f = "typeObjectEntry" -> Item(this("parseTypeObjectEntry", s, <<>>), cl)
      [] cl.f = "method" ->
            Item(s_recoverErrors(s, this("parseMethod", s, <<cl.isInterface, cl.isDerived>>)), cl)
      [] cl.f = "statement" -> Item(s_recoverErrors(s, this("parseStatement", s, <<>>)), cl)
      [] cl.f = "expression" -> Item(this("parseExpression", s, <<FALSE>>), cl)
      [] cl.f = "argument" -> Item(argumentItem(s), cl)
      [] cl.f = "object" -> Item(objectItem(s), cl)
      [] cl.f = "case" -> Item(caseItem(s), cl)
      [] cl.f = "import" -> Item(importItem(s), cl)

\* const VERSION
VERSION == [major |-> 1, minor |-> 0]

\* A parseHeader that accepts every version.
parseHeader_anyVersion(s) ==
    LET word == must(s_read(s, <<Kw("tabscript")>>))
        major == must(s_read(word.s, <<INTEGER>>))
        dot == must(s_read(major.s, <<Kw(".")>>))
        minor == must(s_read(dot.s, <<INTEGER>>))
        nl == must(s_readNewline(minor.s))
    IN  Try(word, Try(major, Try(dot, Try(minor, Try(nl, True(clearTargetPos(nl.s)))))))

\* Parser.parseHeader(s): tabscript X.Y and the newline that ends the line.
parseHeader(s) ==
    LET word == must(s_read(s, <<Kw("tabscript")>>))
        major == must(s_read(word.s, <<INTEGER>>))
        dot == must(s_read(major.s, <<Kw(".")>>))
        minor == must(s_read(dot.s, <<INTEGER>>))
        nl == must(s_readNewline(minor.s))
        versionChecked(major_, minor_) ==
            IF parseInt(major_.v[1]) # VERSION.major \/ parseInt(minor_.v[1]) > VERSION.minor
            THEN Throw(minor_.s, ParseError(0, "version"))
            ELSE Try(nl, True(clearTargetPos(nl.s)))
    IN  Try(word, Try(major, Try(dot, Try(minor, versionChecked(major, minor)))))

\* Parser.parseMain(s), the function its while-loop hands to recoverErrors: a
\* statement and its newline.
statementLine(s) ==
    LET stmt == must(this("parseStatement", s, <<>>))
    IN  Try(stmt, must(s_readNewline(stmt.s)))

\* Parser.parseMain(s) up to its while-loop.
parseMain(s) ==
    LET strict == IF options.js THEN s_emit(s, <<Out("\"use strict\";")>>) ELSE s
    IN  this("parseHeader", strict, <<>>)

\* What a method is called on: a State, its fields evaluated before the body of the
\* method is.
IsState(s) == s.inPos >= 0

\* The methods of the parser object, the pieces of them and the methods of the State.
this(method, s, a) ==
    CASE ~IsState(s) -> Fail(s)
      [] method = "read" -> read(s, a[1])
      [] method = "peek" -> peek(s, a[1])
      [] method = "accept" -> accept(s, a[1])
      [] method = "acceptType" -> acceptType(s, a[1])
      [] method = "emit" -> emit(s, a[1])
      [] method = "readNewline" -> readNewline(s)
      [] method = "readIndent" -> readIndent(s)
      [] method = "readDedent" -> readDedent(s)
      [] method = "parseGroup" -> parseGroup(s, a[1], a[2])
      [] method = "recoverErrors" -> recoverErrors(s, a[1])
      [] method = "groupLoop" -> groupLoop(s, a[1], a[2], a[3], a[4], a[5])
      [] method = "recoverLoop" -> recoverLoop(s, a[1], a[2])
      [] method = "prefixLoop" -> prefixLoop(s, a[1])
      [] method = "primary" -> primary(s)
      [] method = "commaExprs" -> commaExprs(s)
      [] method = "spacedArgs" -> spacedArgs(s, a[1])
      [] method = "dotDotArgs" -> dotDotArgs(s)
      [] method = "operatorTail" -> operatorTail(s, a[1], a[2])
      [] method = "postfixLoop" -> postfixLoop(s, a[1])
      [] method = "ternary" -> ternary(s)
      [] method = "typeArrays" -> typeArrays(s)
      [] method = "typeUnions" -> typeUnions(s)
      [] method = "typeExtends" -> typeExtends(s)
      [] method = "typeTail" -> typeTail(s)
      [] method = "implementsLoop" -> implementsLoop(s)
      [] method = "templateParams" -> templateParams(s)
      [] method = "backtickParts" -> backtickParts(s)
      [] method = "templateArgs" -> templateArgs(s)
      [] method = "blockOrStatement" -> blockOrStatement(s)
      [] method = "forClause" -> forClause(s)
      [] method = "pluginImport" -> pluginImport(s, a[1])
      [] method = "tryBody" -> tryBody(s)
      [] method = "CallItem" -> CallItem(a[1], s)
      [] method = "parseHeader" -> parseHeader(s)
      [] method = "statementLine" -> statementLine(s)
      [] method = "parseMain" -> parseMain(s)
      [] method = "parseFuncParams" -> parseFuncParams(s, a[1], a[2])
      [] method = "parseFunction" -> parseFunction(s, a[1])
      [] method = "parseVarDecl" -> parseVarDecl(s, a[1])
      [] method = "parseExpression" -> parseExpression(s, a[1])
      [] method = "parseType" -> parseType(s, a[1])
      [] method = "parseMethod" -> parseMethod(s, a[1], a[2])
      [] method = "parseClass" -> parseClass(s)
      [] method = "parseStatement" -> parseStatement(s)
      [] method = "parseExport" -> parseExport(s)
      [] method = "parseTypeDecl" -> parseTypeDecl(s)
      [] method = "parseEnum" -> parseEnum(s)
      [] method = "parseReturn" -> parseReturn(s)
      [] method = "parseIfWhile" -> parseIfWhile(s)
      [] method = "parseThrow" -> parseThrow(s)
      [] method = "parseDoWhile" -> parseDoWhile(s)
      [] method = "parseFor" -> parseFor(s)
      [] method = "parseSwitch" -> parseSwitch(s)
      [] method = "parseImport" -> parseImport(s)
      [] method = "parseTry" -> parseTry(s)
      [] method = "parseDeclare" -> parseDeclare(s)
      [] method = "parseBlock" -> parseBlock(s)
      [] method = "parseTemplateDef" -> parseTemplateDef(s)
      [] method = "parseClassicFuncExprBody" -> parseClassicFuncExprBody(s)
      [] method = "parseArrowFuncExprBody" -> parseArrowFuncExprBody(s)
      [] method = "parseFuncType" -> parseFuncType(s)
      [] method = "parseParenthesised" -> parseParenthesised(s)
      [] method = "parseExpressionSeq" -> parseExpressionSeq(s)
      [] method = "parseBacktickString" -> parseBacktickString(s)
      [] method = "parseLiteralArray" -> parseLiteralArray(s)
      [] method = "parseLiteralObject" -> parseLiteralObject(s)
      [] method = "parseTemplateArg" -> parseTemplateArg(s)
      [] method = "parseIndex" -> parseIndex(s)
      [] method = "parseTypeObjectEntry" -> parseTypeObjectEntry(s)

\* ------------------------------------------------------------------ driver

\* Pattern lists the driver passes to read/peek/accept.
ArgLists == {<<KW_A>>, <<EMPTY>>, <<IDENTIFIER, SEMI>>, <<EMPTY, KW_A>>}

\* Argument lists the driver passes to emit.
EmitLists == {<<EStr(<<";">>)>>,
              <<EBool(TRUE), EStr(<<"l", "e", "t">>)>>,
              <<EBool(FALSE), ENull, EStr(<<"(">>)>>}

\* Options the scanner driver constructs the State with.
ScanOptions == {[js |-> FALSE, recover |-> FALSE, loadPlugin |-> FALSE, transformImport |-> FALSE,
      whitespace |-> "preserve"]}

\* The snapshot handles the driver holds.
Handles == {1, 2}

\* Writes the fields of s back to the State.
SetState(s) ==
    /\ inPos' = s.inPos
    /\ indentLevel' = s.indentLevel
    /\ indentsPending' = s.indentsPending
    /\ inLastNewlinePos' = s.inLastNewlinePos
    /\ outTokens' = s.outTokens
    /\ outTargetPos' = s.outTargetPos
    /\ inPosLineCache' = s.inPosLineCache
    /\ inPosColCache' = s.inPosColCache
    /\ matchOptions' = s.matchOptions
    /\ errors' = s.errors

\* Records a call and its result res, which a catch clause made of func.
Handled(name, whats, res, func) ==
    /\ op' = name
    /\ args' = whats
    /\ ret' = [r |-> res.r, v |-> res.v, e |-> res.e]
    /\ pre' = CurState
    /\ raised' = [s |-> func.s, r |-> func.r, e |-> func.e]
    /\ SetState(res.s)

\* Records a call and its result.
Called(name, whats, res) == Handled(name, whats, res, res)

\* new State(inData, options) with startPos = 0
NewState(inputs, opts) ==
    /\ inData \in inputs
    /\ options \in opts
    /\ inPos = 0
    /\ indentLevel = 0
    /\ indentsPending = <<>>
    /\ inLastNewlinePos = 0 - 1
    /\ outTokens = <<>>
    /\ outTargetPos = Undefined
    /\ inPosLineCache = <<1>>
    /\ inPosColCache = <<1>>
    /\ matchOptions = {}
    /\ errors = <<>>
    /\ snaps = [h \in Handles |-> NoSnap]
    /\ snapAt = [h \in Handles |-> [at |-> CurState, clean |-> FALSE, kept |-> 0]]
    /\ op = "new"
    /\ args = <<>>
    /\ ret = [r |-> "ok", v |-> <<>>, e |-> NoError]
    /\ pre = CurState
    /\ raised = [s |-> CurState, r |-> "ok", e |-> NoError]
    /\ calls = 0

Init == NewState(Inputs, ScanOptions)

Read ==
    \E whats \in ArgLists :
        /\ Called("read", whats, read(CurState, whats))
        /\ UNCHANGED <<inData, options, snaps, snapAt>>

Peek ==
    \E whats \in ArgLists :
        /\ Called("peek", whats, peek(CurState, whats))
        /\ UNCHANGED <<inData, options, snaps, snapAt>>

Accept ==
    \E whats \in ArgLists :
        LET res == accept(CurState, whats)
        IN  /\ Called("accept", whats, res)
            /\ UNCHANGED <<inData, options, snaps, snapAt>>

Emit ==
    \E eargs \in EmitLists :
        LET s1 == emit(CurState, eargs)
        IN  /\ Called("emit", <<>>, Ok(s1, <<>>))
            /\ UNCHANGED <<inData, options, snaps, snapAt>>

ReadNewline ==
    /\ Called("readNewline", <<>>, readNewline(CurState))
    /\ UNCHANGED <<inData, options, snaps, snapAt>>

ReadIndent ==
    /\ Called("readIndent", <<>>, readIndent(CurState))
    /\ UNCHANGED <<inData, options, snaps, snapAt>>

ReadDedent ==
    /\ Called("readDedent", <<>>, readDedent(CurState))
    /\ UNCHANGED <<inData, options, snaps, snapAt>>

TakeSnapshot ==
    \E h \in Handles :
        /\ snaps' = [snaps EXCEPT ![h] = snapshot(CurState)]
        /\ snapAt' = [snapAt EXCEPT ![h] = [at |-> CurState, clean |-> TRUE,
                                             kept |-> Len(outTokens)]]
        /\ Called("snapshot", <<>>, Ok(CurState, <<>>))
        /\ UNCHANGED <<inData, options>>

\* After a revert through handle h the other handles have seen a revert, and each
\* handle keeps count of the tokens that are in the stream since before its snapshot.
Reverted(h, keep) ==
    snapAt' = [g \in Handles |->
                  [snapAt[g] EXCEPT !.clean = @ /\ g = h /\ keep,
                                    !.kept = IF Len(outTokens') < @ THEN Len(outTokens') ELSE @]]

Revert ==
    \E h \in Handles :
        /\ snaps[h].live
        /\ Called("revert", <<>>, Ok(revert(CurState, snaps[h]), <<>>))
        /\ Reverted(h, TRUE)
        /\ UNCHANGED <<inData, options, snaps>>

RevertOutput ==
    \E h \in Handles :
        /\ snaps[h].live
        /\ Called("revertOutput", <<>>, Ok(revertOutput(CurState, snaps[h]), <<>>))
        /\ Reverted(h, FALSE)
        /\ UNCHANGED <<inData, options, snaps>>

\* A call of a driver that makes any number of calls.
Free(A) == A /\ UNCHANGED calls

\* A call of a driver that makes at most MaxCalls calls.
Counted(A) == calls < MaxCalls /\ calls' = calls + 1 /\ A

\* The scanner driver: any sequence of scanner calls on any short input.
Next ==
    \/ Free(Read)
    \/ Free(Peek)
    \/ Free(ReadNewline)
    \/ Free(ReadIndent)
    \/ Free(ReadDedent)

Spec == Init /\ [][Next]_vars

\* Inputs of the output driver: separators, indentation and keywords mixed.
OutInputs == {<<"a", ";", "\n">>, <<"\n", "\t", "a">>, <<"_", " ", ";">>, <<";", "\n", "a", "a">>}

InitOut == NewState(OutInputs, ScanOptions)

\* The output driver: scanner calls mixed with accept, emit and snapshots.
NextOut ==
    \/ Counted(Read)
    \/ Counted(Peek)
    \/ Counted(Accept)
    \/ Counted(Emit)
    \/ Counted(ReadNewline)
    \/ Counted(ReadIndent)
    \/ Counted(ReadDedent)
    \/ Counted(TakeSnapshot)
    \/ Counted(Revert)
    \/ Counted(RevertOutput)

SpecOut == InitOut /\ [][NextOut]_vars

\* The snapshot driver: a caller that holds two snapshots of a State and calls
\* accept, emit, snapshot(), revert() and revertOutput() in any order.
InitSnap == NewState({<<"a", ";", "\n">>}, ScanOptions)

SnapCounted(A) == calls < MaxSnapCalls /\ calls' = calls + 1 /\ A

NextSnap ==
    \/ SnapCounted(Accept)
    \/ SnapCounted(Emit)
    \/ SnapCounted(TakeSnapshot)
    \/ SnapCounted(Revert)
    \/ SnapCounted(RevertOutput)

SpecSnap == InitSnap /\ [][NextSnap]_vars


\* Programs the parser driver starts from: a declaration that begins with async,
\* a lone modifier, a variable declaration, an arrow function, two identifiers, a
\* call, a `<` behind an identifier (template arguments of a call, two comparisons,
\* a comparison with a parenthesised sum), a constructor with a parameter property
\* (without a body, with a block), a classic function and a static block.
ParseInputs ==
    {
      <<"a", "s", "y", "n", "c", " ", "x">>,
      <<"p", "u", "b", "l", "i", "c">>,
      <<"x", " ", ":", "=", " ", "5">>,
      <<"|", "x", "|", " ", "x">>,
      <<"x", " ", "y">>,
      <<"a", ".", "b", "(", "1", ")">>,
      Spell("a<b>(c)"),
      Spell("a<b>c"),
      Spell("a<(b+1)"),
      Spell("constructor|public x|"),
      Spell("constructor|public x|\n\ty\n"),
      <<"f", "u", "n", "c", "t", "i", "o", "n", " ", "f", "|", "a", "|", " ", "a">>,
      <<"s", "t", "a", "t", "i", "c", "\n", "\t", "x", " ", ":", "=", " ", "1", "\n">>
    }

\* Options the parser driver constructs the State with: TypeScript or JavaScript output.
ParseOptions ==
    {[js |-> b, recover |-> FALSE, loadPlugin |-> FALSE, transformImport |-> FALSE,
      whitespace |-> "preserve"] :
        b \in BOOLEAN}

InitParse == NewState(ParseInputs, ParseOptions)

\* The names under which the parser driver records its calls.
ParseOps == {"parseFunction", "parseMethod", "parseVarDecl", "parseExpression",
             "parseType", "parseClass", "parseStatement"}

\* The calls the parser driver makes: a parser method and its arguments after the State.
ParseCalls ==
    {<<"parseFunction", <<declaration>>>> : declaration \in BOOLEAN}
    \cup {<<"parseMethod", <<typeOnly, isDerived>>>> : typeOnly \in BOOLEAN, isDerived \in BOOLEAN}
    \cup {<<"parseVarDecl", <<allowInit>>>> : allowInit \in BOOLEAN}
    \cup {<<"parseType", <<allowFunction>>>> : allowFunction \in BOOLEAN}
    \cup {<<"parseExpression", <<FALSE>>>>, <<"parseClass", <<>>>>, <<"parseStatement", <<>>>>}

\* A call of a parser method on the State; an exception ends the driver.
ParserCall ==
    \E call \in ParseCalls :
        /\ ret.r # "throw"
        /\ Called(call[1], call[2], this(call[1], CurState, call[2]))
        /\ UNCHANGED <<inData, options, snaps, snapAt>>

\* The parser driver: parser methods called one after another on one State.
NextParse == Counted(ParserCall)

SpecParse == InitParse /\ [][NextParse]_vars

\* Options of the mode driver's first State: TypeScript output.
ModeOptions ==
    {[js |-> FALSE, recover |-> FALSE, loadPlugin |-> FALSE, transformImport |-> FALSE,
      whitespace |-> "preserve"]}

InitModes == NewState(ParseInputs, ModeOptions)

\* new State(inData, options): the fields of a State just constructed.
FreshState ==
    [inPos |-> 0, indentLevel |-> 0, indentsPending |-> <<>>, inLastNewlinePos |-> 0 - 1,
     outTokens |-> <<>>, outTargetPos |-> Undefined, inPosLineCache |-> <<1>>,
     inPosColCache |-> <<1>>, matchOptions |-> {}, errors |-> <<>>]

\* The mode driver constructs its second State, on the same text with js set; it
\* keeps the first State and what the call on it returned.
SecondState ==
    /\ op # "new"
    /\ ~options.js
    /\ options' = [options EXCEPT !.js = TRUE]
    /\ UNCHANGED <<inData, inPos, indentLevel, indentsPending, inLastNewlinePos, outTokens,
                   outTargetPos, inPosLineCache, inPosColCache, matchOptions, errors,
                   snaps, snapAt, op, args, ret, pre, raised, calls>>

\* A parser method called on a State just constructed, func being what it did:
\* pre and raised keep the State the driver held before and what the call on
\* that one returned.
modeStep(call, func) ==
    /\ op' = call[1]
    /\ args' = call[2]
    /\ ret' = [r |-> func.r, v |-> func.v, e |-> func.e]
    /\ pre' = CurState
    /\ raised' = [s |-> CurState, r |-> ret.r, e |-> ret.e]
    /\ SetState(func.s)
    /\ calls' = calls + 1

\* The mode driver's call: any call on the first State, and on the second State
\* the call it made on the first.
ModeCall ==
    \E call \in ParseCalls :
        /\ IF options.js THEN calls = 1 /\ call = <<op, args>> ELSE op = "new"
        /\ modeStep(call, this(call[1], FreshState, call[2]))
        /\ UNCHANGED <<inData, options, snaps, snapAt>>

\* The mode driver: one parser method called on a text in TypeScript mode, then
\* on the same text in JavaScript mode.
NextModes ==
    \/ ModeCall
    \/ SecondState

SpecModes == InitModes /\ [][NextModes]_vars

\* Groups the group driver starts from, each at its opening: a nested block
\* indented twice, a failing declaration between two lines, one followed by a
\* deeper line, one on the last line of the block, blocks of two and of three
\* lines without errors, a block whose second line is no statement, a block inside a block with a third one
\* indented twice, five texts with a `;` at the end of a line, and four argument lists: on one line, without
\* its close, on lines of their own, and without a line break before the close.
GroupInputs ==
    {
      Spell("\n\tif b\n\t\t\tc\n\td\ne\n"),
      Spell("\n\tb :=\n\tc\nd\n"),
      Spell("\n\tb :=\n\t\tc\n\td\ne\n"),
      Spell("\n\tb :=\nd\n"),
      Spell("\n\tb\n\tc\nd\n"),
      Spell("\n\tb\n\tc\n\te\nd\n"),
      Spell("\n\tb\n\tc )\nd\n"),
      Spell("\n\tx\n\t\tif c\n\t\t\t\td\n\t\te\n\tf\ng\n"),
      Spell(";\n\ty\n"),
      Spell(";\ny\n"),
      Spell("\n\t;\n\t\ty\n"),
      Spell("\n\t;\ny\n"),
      Spell("\n\tb;\nc\n"),
      Spell("(a, b)"),
      Spell("(a b"),
      Spell("(\n\ta\n\tb\n)"),
      Spell("(\n\ta\n\tb)")
    }

\* Options the group driver constructs the State with.
GroupOptions ==
    {[js |-> FALSE, recover |-> r, loadPlugin |-> FALSE, transformImport |-> FALSE,
      whitespace |-> "preserve"] : r \in BOOLEAN}

InitGroup == NewState(GroupInputs, GroupOptions)

\* The options of the parser's groups: a call's arguments and the arguments after `..`.
ArgumentOpts == [NoOpts EXCEPT !.open = Out("("), !.close = Out(")"), !.next = Out(",")]
DotDotOpts == [NoOpts EXCEPT !.jsOpen = Out("("), !.jsClose = Out(")"), !.jsNext = Out(","),
                             !.allowImplicit = TRUE, !.endNext = "false"]

\* The calls the group driver makes: the statement that is the item of a block,
\* and parseGroup as parseBlock and parseExpression call it.
GroupCalls ==
    {<<"parseStatement", <<>>>>,
     <<"parseGroup", <<BlockOpts, [f |-> "statement"]>>>>,
     <<"parseGroup", <<ArgumentOpts, [f |-> "argument"]>>>>,
     <<"parseGroup", <<DotDotOpts, [f |-> "expression"]>>>>}

\* What the driver's call makes of func, the outcome of the parser method: a
\* statement is wrapped, s.recoverErrors(() => p.parseStatement(s)); a group
\* returns its result, and the State before it read its close is kept.
groupStep(call, func) ==
    IF call[1] = "parseStatement"
    THEN Handled("recoverErrors", <<>>, s_recoverErrors(CurState, func), func)
    ELSE Handled("parseGroup", <<call[2][1]>>, func.res,
                 [s |-> GroupEnd(func), r |-> func.res.r, e |-> func.res.e])

\* A call of the driver; an exception ends the driver.
GroupCall ==
    \E call \in GroupCalls :
        /\ ret.r # "throw"
        /\ groupStep(call, this(call[1], CurState, call[2]))
        /\ UNCHANGED <<inData, options, snaps, snapAt>>

\* The group driver: what parseGroup does around the items of a group, in any
\* order, and groups themselves.
GroupCounted(A) == calls < MaxGroupCalls /\ calls' = calls + 1 /\ A

NextGroup ==
    \/ GroupCounted(ReadIndent)
    \/ GroupCounted(ReadNewline)
    \/ GroupCounted(ReadDedent)
    \/ GroupCounted(GroupCall)

SpecGroup == InitGroup /\ [][NextGroup]_vars

\* ---------------------------------------------------------------- renderer

\* const IS_WORD_CHAR, START_WORD_CHAR
IsWordChar == WordChars \cup {"$"}

\* string.repeat(n)
Repeat(c, n) == [i \in 1..n |-> c]

\* The offsets of the newlines of a token's text, 0-based.
Newlines(text) == {i - 1 : i \in {j \in 1..Len(text) : text[j] = "\n"}}

\* The variables of getResult() before its loop.
RenderStart ==
    [output |-> <<>>, outLine |-> 1, outCol |-> 1, targetLine |-> Undefined,
     targetCol |-> Undefined, addMapInPos |-> Undefined, inMap |-> <<>>, outMap |-> <<>>,
     next |-> 1]

\* getResult(): the newlines that bring the output to the target line.
renderLines(v) ==
    LET n == IF v.targetLine # Undefined /\ v.outLine < v.targetLine
             THEN v.targetLine - v.outLine ELSE 0
    IN  IF n = 0 THEN v
        ELSE [v EXCEPT !.output = @ \o Repeat("\n", n), !.outLine = @ + n, !.outCol = 1]

\* A spaceCount without the space that keeps two words apart.
spaceCount_noWord(text, v) ==
    LET prevChar == IF v.output # <<>> THEN v.output[Len(v.output)] ELSE " "
        nextIn(S) == text # <<>> /\ text[1] \in S
    IN  IF options.whitespace = "preserve"
        THEN IF v.targetCol # Undefined /\ v.outLine = v.targetLine
                  /\ v.targetCol - v.outCol > 0
             THEN v.targetCol - v.outCol ELSE 0
        ELSE IF prevChar \notin {"[", "(", ".", "!"}
                /\ ~nextIn({"[", "]", "(", ",", ";", ")", ":", "."}) THEN 1
        ELSE IF prevChar \in {":", "="} /\ nextIn({"(", "["}) THEN 1
        ELSE 0

\* getResult(): spaceCount for a text token that does not open its line with tabs.
spaceCount(text, v) ==
    LET prevChar == IF v.output # <<>> THEN v.output[Len(v.output)] ELSE " "
        nextIn(S) == text # <<>> /\ text[1] \in S
        word == IF prevChar \in IsWordChar /\ nextIn(IsWordChar) THEN 1 ELSE 0
    IN  IF options.whitespace = "preserve"
        THEN IF v.targetCol # Undefined /\ v.outLine = v.targetLine
                  /\ v.targetCol - v.outCol > word
             THEN v.targetCol - v.outCol ELSE word
        ELSE IF word # 0 THEN word
        ELSE IF prevChar \notin {"[", "(", ".", "!"}
                /\ ~nextIn({"[", "]", "(", ",", ";", ")", ":", "."}) THEN 1
        ELSE IF prevChar \in {":", "="} /\ nextIn({"(", "["}) THEN 1
        ELSE 0

\* getResult(): the tabs or spaces in front of a text token.
renderGap(text, v) ==
    IF v.outCol = 1 /\ v.targetCol # Undefined /\ v.targetCol > 1 /\ v.outLine = v.targetLine
    THEN [v EXCEPT !.outCol = @ + v.targetCol - 1,
                   !.output = @ \o Repeat("\t", v.targetCol - 1)]
    ELSE LET n == spaceCount(text, v)
         IN  IF n > 0 THEN [v EXCEPT !.outCol = @ + n, !.output = @ \o Repeat(" ", n)]
             ELSE v

\* A renderMap that records the input offset and no output offset.
renderMap_inOnly(v) ==
    IF v.addMapInPos # Undefined
    THEN [v EXCEPT !.inMap = Append(@, v.addMapInPos), !.addMapInPos = Undefined]
    ELSE v

\* A renderMap that puts each pair in front of the ones before it.
renderMap_inFront(v) ==
    IF v.addMapInPos # Undefined
    THEN [v EXCEPT !.inMap = <<v.addMapInPos>> \o @, !.outMap = <<Len(v.output)>> \o @,
                   !.addMapInPos = Undefined]
    ELSE v

\* getResult(): the source-map pair of a text token.
renderMap(v) ==
    IF v.addMapInPos # Undefined
    THEN [v EXCEPT !.inMap = Append(@, v.addMapInPos), !.outMap = Append(@, Len(v.output)),
                   !.addMapInPos = Undefined]
    ELSE v

\* getResult(): the text of a token and the output line and column after it.
renderAppend(text, v) ==
    LET nls == Newlines(text)
        lastNewline == CHOOSE i \in nls : \A j \in nls : j <= i
    IN  [v EXCEPT !.output = @ \o text,
                  !.outLine = @ + Cardinality(nls),
                  !.outCol = IF nls # {} THEN Len(text) - lastNewline ELSE @ + Len(text)]

\* getResult(): the body of the loop for a text token.
renderText(text, v) ==
    renderAppend(text,
        renderMap([renderGap(text, renderLines(v)) EXCEPT !.targetCol = Undefined,
                                                          !.targetLine = Undefined]))

\* getResult(): the loop over outTokens, v.next being the token it is at.
RECURSIVE renderFrom(_, _)
renderFrom(s, v) ==
    IF v.next > Len(s.outTokens) THEN [s |-> s, v |-> v]
    ELSE LET token == s.outTokens[v.next]
             pos == getLineCol(s, IF token.n < 0 THEN 0 - token.n ELSE token.n)
         IN  IF token.str
             THEN renderFrom(s, [renderText(token.t, v) EXCEPT !.next = @ + 1])
             ELSE renderFrom(pos.s,
                             [v EXCEPT !.addMapInPos = IF token.n >= 0 THEN token.n ELSE @,
                                       !.targetLine = pos.line, !.targetCol = pos.col,
                                       !.next = @ + 1])

\* A getResult that empties the token stream it rendered.
getResult_dropsTokens(s) ==
    LET done == renderFrom(s, RenderStart)
    IN  Ok([done.s EXCEPT !.outTokens = <<>>],
           [code |-> done.v.output \o <<"\n">>, errors |-> s.errors,
            map |-> [in |-> done.v.inMap, out |-> done.v.outMap]])

\* State.getResult()
getResult(s) ==
    LET done == renderFrom(s, RenderStart)
    IN  Ok(done.s, [code |-> done.v.output \o <<"\n">>, errors |-> s.errors,
                    map |-> [in |-> done.v.inMap, out |-> done.v.outMap]])

\* ----------------------------------------------------------- whole programs

\* The header line every program starts with.
Header == Spell("tabscript 1.0\n")

\* A run of n comment lines.
CommentLine == Spell("# a comment\n")
CommentLines(n) ==
    [i \in 1..(n * Len(CommentLine)) |-> CommentLine[((i - 1) % Len(CommentLine)) + 1]]

\* The programs tabscript() is run on.
Programs ==
    {
      <<>>,
      Header,
      Spell("x := 1\n"),
      Header \o Spell("x := 1\ny := x\n"),
      Header \o Spell("a.b(1)\n"),
      Header \o Spell("enum A\n\tb\n\tc\n"),
      Header \o Spell("enum A\n\tb"),
      Header \o Spell("if a\n\tb\nc\n"),
      Header \o Spell("x;\n"),
      Header \o Spell("import plugin \"p\"\n y\n"),
      Header \o Spell("x\nimport plugin \"p\" {a: 1}\ny\n"),
      Header \o Spell("x\n y\nz\n"),
      Header \o Spell("enum A\n\t b\nc\n"),
      Header \o Spell("x y\nz\n"),
      Header \o Spell("if a\n\tb c\nd\n"),
      Header \o Spell("x y\nz w\nv\n"),
      Header \o Spell("x\ntype A = number\ny\n"),
      Header \o Spell("if a\n\tb\ntype A = b|c\ny\n"),
      Header \o Spell("x y"),
      Header \o Spell("x y\ntype A = b\na<b\n"),
      Header \o Spell("x\n)\ny\n"),
      Header \o Spell("x y\n z\nw\n"),
      Header \o Spell("if a\n\tb :=\n\tc\nd e\n"),
      Header \o Spell("x := ") \o <<Backtick>> \o Spell("a\n b") \o <<Backtick>> \o Spell("\n"),
      Header \o Spell("x := /a\n b/\n"),
      Spell("tabscript 2.0\nx\n"),
      Spell("tabscript 1.1\nx\n"),
      Spell("tabscript 1.0 x\n"),
      Header \o CommentLines(8) \o Spell("x\ny\n"),
      Header \o CommentLines(8) \o Spell("x y\n")
    }

\* The options tabscript() is called with, whitespace defaulted.
MainOptions ==
    {[js |-> j, recover |-> r, loadPlugin |-> FALSE, transformImport |-> FALSE,
      whitespace |-> w] : j \in BOOLEAN, r \in BOOLEAN, w \in {"preserve", "pretty"}}
    \cup {[js |-> j, recover |-> FALSE, loadPlugin |-> TRUE, transformImport |-> FALSE,
            whitespace |-> "preserve"] : j \in BOOLEAN}

InitMain == NewState(Programs, MainOptions)

\* A catch clause that stores nothing.
caught_dropsError(res) == res

\* tabscript(): the catch clause, which keeps a ParseError and rethrows the rest.
caught(res) ==
    IF res.r = "throw" /\ res.e.kind # "Error"
    THEN [res EXCEPT !.s = [res.s EXCEPT !.errors = Append(@, res.e)]]
    ELSE res

\* The position of tabscript() in parser.parseMain(state): before it, or in its
\* while-loop with input left and nothing thrown.
InParseMain == op = "new" \/ (op = "parseMain" /\ ret.r # "throw" /\ hasMore(CurState))

\* Parser.parseMain(s) from where it stands, func being what it runs there: the
\* part up to the while-loop, or a turn of the loop, which is recoverErrors(func).
\* tabscript()'s catch clause sees what leaves parseMain.
parseMainStep(func) ==
    Handled("parseMain", <<>>,
            caught(IF op = "new" THEN func ELSE s_recoverErrors(CurState, func)), func)

\* tabscript(): try { parser.parseMain(state) } catch (e) { ... }, a step of it.
TryParseMain ==
    /\ InParseMain
    /\ parseMainStep(this(IF op = "new" THEN "parseMain" ELSE "statementLine", CurState, <<>>))
    /\ UNCHANGED <<inData, options, snaps, snapAt, calls>>

\* tabscript(): return state.getResult(), and getResult() called again on that State.
GetResult ==
    /\ op \in {"parseMain", "getResult"}
    /\ ~InParseMain
    /\ ~(ret.r = "throw" /\ ret.e.kind = "Error")
    /\ Counted(Called("getResult", <<>>, getResult(CurState)))
    /\ UNCHANGED <<inData, options, snaps, snapAt>>

NextMain ==
    \/ TryParseMain
    \/ GetResult

SpecMain == InitMain /\ [][NextMain]_vars

\* ------------------------------------------------------------------ claims

\* The scanner state of the spec's data model, and the fields a snapshot captures.
ScannerState(s) == <<s.inPos, s.indentLevel, s.indentsPending, s.inLastNewlinePos>>
Captured(s) == <<s.inPos, s.indentLevel, s.indentsPending, s.inLastNewlinePos,
                 s.outTargetPos, s.outTokens>>

IsPrefix(p, q) == Len(p) <= Len(q) /\ SubSeq(q, 1, Len(p)) = p

\* [a-zA-Z0-9_]: a word character in the sense of the claims.
WordChar(c) == c \in LowerCase \cup UpperCase \cup Digits \cup {"_"}

\* A literal that is a keyword: it ends in a letter or digit.
IsKeyword(what) == ~what.re /\ what.t # <<>> /\ ALPHA_NUM(what.t[Len(what.t)])

\* Index of the first pattern of whats that does not match when read from s.
RECURSIVE FirstFailing(_, _, _)
FirstFailing(s, whats, k) ==
    IF k > Len(whats) THEN 0
    ELSE IF s.indentsPending # <<>> \/ Match(whats[k], s.inPos) = NoMatch THEN k
    ELSE FirstFailing([s EXCEPT !.inPos = WHITESPACE(s.inPos + Match(whats[k], s.inPos))],
                      whats, k + 1)

\* C1 as claimed: a parser method that returns a falsy result without throwing leaves
\* the State as it was on entry: input position, indentLevel, indentsPending, newline
\* sentinel, outTargetPos and the output token stream.
C1_NoLeakOnFailure ==
    (op \in ParseOps /\ ret.r = "fail") => Captured(CurState) = Captured(pre)

\* C2: a snapshot followed by any read, accept, emit, readNewline, readIndent,
\* readDedent (and peek) calls and then by its revert() leaves inPos, indentLevel,
\* indentsPending, inLastNewlinePos, outTargetPos and the output stream as they
\* were when the snapshot was taken.
C2_SnapshotRoundTrip ==
    \A h \in Handles :
        (op = "revert" /\ snapAt[h].clean) => Captured(CurState) = Captured(snapAt[h].at)

\* C2 witness: a revert that undid an advance of the scanner, queued markers and output.
C2_Witness ==
    \E h \in Handles :
        /\ op = "revert" /\ snapAt[h].clean
        /\ pre.inPos > inPos
        /\ pre.indentsPending # indentsPending
        /\ pre.inLastNewlinePos # inLastNewlinePos
        /\ Len(pre.outTokens) > Len(outTokens)

\* C3 as claimed: a failing read returns undefined, leaves the scanner state as it
\* was, and the pattern that failed is itself a member of the expected-set.
C3_FailingPatternInExpected ==
    (op = "read" /\ ret.r = "fail") =>
        /\ ScannerState(CurState) = ScannerState(pre)
        /\ <<args[FirstFailing(pre, args, 1)]>> \in matchOptions

\* C3 amended: a failing read returns undefined without throwing, leaves inPos,
\* indentLevel, indentsPending and inLastNewlinePos as they were, and adds to the
\* expected-set the pattern itself when it was called with one pattern and the
\* whole pattern list, as one entry, when it was called with several.
C3_FailedReadRestores ==
    (op = "read" /\ FirstFailing(pre, args, 1) # 0) =>
        /\ ret.r = "fail" /\ ret.v = <<>>
        /\ ScannerState(CurState) = ScannerState(pre)
        /\ outTokens = pre.outTokens
        /\ matchOptions = pre.matchOptions \cup {IF Len(args) = 1 THEN <<args[1]>> ELSE args}

\* C3 witness: a read of two patterns whose first matched and whose second failed.
C3_Witness ==
    /\ op = "read" /\ ret.r = "fail"
    /\ FirstFailing(pre, args, 1) = 2
    /\ pre.inPos > 0

\* C4: while indentsPending is non-empty every read fails, consumes nothing and
\* adds what it was asked for to the expected-set.
C4_PendingBlocksRead ==
    (op = "read" /\ pre.indentsPending # <<>>) =>
        /\ ret.r = "fail"
        /\ inPos = pre.inPos
        /\ (IF Len(args) = 1 THEN <<args[1]>> ELSE args) \in matchOptions

\* C4 witness: a read that failed on pending markers though its pattern is next in the input.
C4_Witness ==
    /\ op = "read" /\ pre.indentsPending # <<>>
    /\ Match(args[1], pre.inPos) > 0

\* C5: of the scanner and output calls only a successful readIndent or readDedent
\* shortens indentsPending, and it removes exactly the head marker (of the queue
\* as the newline it may have read left it), an INDENT for readIndent and a DEDENT
\* for readDedent; read, peek, accept and emit leave the queue alone and
\* readNewline and every failed call only append to it.
C5_OnlyMarkerReadsDrain ==
    LET queued == IF pre.indentsPending # <<>> THEN pre.indentsPending
                  ELSE readNewline(pre).s.indentsPending
    IN  /\ (op \in {"read", "peek", "accept", "emit"}) => indentsPending = pre.indentsPending
        /\ (op = "readNewline") => IsPrefix(pre.indentsPending, indentsPending)
        /\ (op \in {"readIndent", "readDedent"} /\ ret.r # "ok") =>
                IsPrefix(pre.indentsPending, indentsPending)
        /\ (op \in {"readIndent", "readDedent"} /\ ret.r = "ok") =>
                /\ queued # <<>>
                /\ Head(queued) = (IF op = "readIndent" THEN "i" ELSE "d")
                /\ indentsPending = Tail(queued)

\* C5 witness: a readIndent that read a newline queueing two markers and removed the first.
C5_Witness ==
    /\ op = "readIndent" /\ ret.r = "ok"
    /\ pre.indentsPending = <<>>
    /\ indentsPending # <<>>

\* C6: peek leaves inPos, indentLevel, indentsPending, inLastNewlinePos,
\* outTargetPos and the output stream as they were and returns what read returns.
C6_PeekNeverAdvances ==
    (op = "peek") =>
        /\ Captured(CurState) = Captured(pre)
        /\ ret.r = read(pre, args).r
        /\ ret.v = read(pre, args).v

\* C6 witness: a peek that matched text a read would have consumed, with no target set.
C6_Witness ==
    /\ op = "peek" /\ ret.r = "ok"
    /\ ret.v # <<>> /\ ret.v[1] # <<>>
    /\ pre.outTargetPos = Undefined
    /\ read(pre, args).s.inPos > inPos

\* C7: a successful read never moves inPos backwards, and inPos stays within the input.
C7_InPosMonotonic ==
    /\ (op = "read" /\ ret.r = "ok") => inPos >= pre.inPos
    /\ inPos >= 0 /\ inPos <= Len(inData)

\* C7 witness: a read from inside the input that consumed a token and the whitespace after it.
C7_Witness ==
    /\ op = "read" /\ ret.r = "ok"
    /\ pre.inPos > 0
    /\ inPos > pre.inPos + 1

\* Whether the last call advanced the scanner.
Advanced == ScannerState(CurState) # ScannerState(pre)

\* C8 as claimed: after a successful read of non-empty text the expected-set is
\* empty; every successful advance by read, readNewline, readIndent or readDedent
\* clears it; and a call that does not advance does not clear it.
C8_ExpectedSetReset ==
    /\ (op = "read" /\ ret.r = "ok" /\ \E i \in 1..Len(ret.v) : ret.v[i] # <<>>) =>
            matchOptions = {}
    /\ (op \in {"read", "readNewline", "readIndent", "readDedent"} /\ ret.r = "ok" /\ Advanced) =>
            matchOptions = {}
    /\ (op \in {"peek", "readNewline", "readIndent", "readDedent"} /\ ~Advanced) =>
            pre.matchOptions \subseteq matchOptions

\* C9 as claimed: a keyword literal is read only when the input character after it
\* is not a word character (letter, digit or underscore).
C9_KeywordBoundary ==
    (op = "read" /\ ret.r = "ok" /\ IsKeyword(args[1])) =>
        ~WordChar(CharAt(pre.inPos + Len(args[1].t)))

\* C10: after a readNewline that succeeded, a second readNewline succeeds too and
\* leaves inPos, indentLevel and indentsPending as the first left them.
C10_NewlineIdempotent ==
    (op = "readNewline" /\ ret.r = "ok") =>
        LET second == readNewline(CurState)
        IN  /\ second.r = "ok"
            /\ second.s.inPos = inPos
            /\ second.s.indentLevel = indentLevel
            /\ second.s.indentsPending = indentsPending

\* C10 witness: a readNewline that consumed a line break and queued a marker.
C10_Witness ==
    /\ op = "readNewline" /\ ret.r = "ok"
    /\ inPos > pre.inPos
    /\ indentsPending # <<>>
\* tabscript() is past parser.parseMain(state): it returned, or threw a ParseError that
\* the catch clause stored.
Parsed == op = "parseMain" /\ ~InParseMain

\* C11 as claimed: when the parse has completed without an error, at end-of-file
\* indentLevel is 0 and indentsPending is empty.
C11_IndentBalance ==
    (Parsed /\ ret.r # "throw" /\ errors = <<>>) =>
        (indentLevel = 0 /\ indentsPending = <<>>)

\* C11 witness: a block was entered and left, and the parse ended in balance.
C11_Witness ==
    /\ Parsed /\ ret.r # "throw" /\ errors = <<>>
    /\ indentLevel = 0 /\ indentsPending = <<>>
    /\ \E p \in 1..Len(inData) : inData[p] = "\t"

\* tabscript() has returned state.getResult().
Returned == op = "getResult"

\* C12 as claimed: a space-indentation error is never recovered: when errors holds
\* one, the parse has been aborted by it, with recover enabled too.
C12_SpaceNeverRecovered ==
    (op = "parseMain" /\ \E i \in 1..Len(errors) : errors[i].kind = "space") =>
        (ret.r = "throw" /\ ret.e.kind = "space" /\ errors[Len(errors)] = ret.e)

\* The offsets of inData that are an indent position holding a space: directly after
\* a newline and its leading tabs.
SpaceAtIndent ==
    {p \in 1..(Len(inData) - 1) :
        CharAt(p) = " " /\ \E nl \in 0..(p - 1) :
            CharAt(nl) = "\n" /\ \A q \in (nl + 1)..(p - 1) : CharAt(q) = "\t"}

\* The offset p lies in a template string or a regular-expression literal of the
\* programs, none of which has a division or a nested template: an odd number of
\* delimiters comes before it.
InLiteral(p) ==
    \E delimiter \in {Backtick, "/"} :
        Cardinality({q \in 0..(p - 1) : CharAt(q) = delimiter}) % 2 = 1

BadVersion ==
    /\ Len(inData) >= 13
    /\ SubSeq(inData, 1, 10) = Spell("tabscript ")
    /\ inData[11] \in Digits /\ inData[12] = "." /\ inData[13] \in Digits
    /\ CharAt(13) \notin Digits
    /\ (parseInt(<<inData[11]>>) # VERSION.major \/ parseInt(<<inData[13]>>) > VERSION.minor)

\* C14: a header with another major version or a higher minor version aborts the
\* parse, with recover enabled too: errors is that one version error, the input
\* position stays at the end of the version, and nothing but the "use strict" of
\* parseMain has been emitted.
C14_VersionAborts ==
    (op \in {"parseMain", "getResult"} /\ BadVersion) =>
        /\ errors = <<ParseError(0, "version")>>
        /\ inPos = 13
        /\ Len(outTokens) = (IF options.js THEN 1 ELSE 0)
        /\ \A i \in 1..Len(outTokens) : outTokens[i].str
        /\ Returned => ret.v.errors = errors

\* C14 witness: the result for a program of another version with a statement after
\* the header; recover is enabled.
C14_Witness ==
    /\ Returned /\ BadVersion /\ options.recover
    /\ hasMore(CurState)
    /\ ret.v.errors = <<ParseError(0, "version")>>

C16_ThrowsToCaller ==
    ~(Returned /\ ~options.recover /\ ret.v.errors # <<>>)

\* A turn of parseMain's loop: recoverErrors ran on a statement line.
Turn == op = "parseMain" /\ pre.inPos > 0

\* C17: a ParseError that leaves parseMain, raised by the header (outside every
\* recoverErrors call) or with recovery disabled, is the one that was raised, and
\* the State is as the raise left it but for the error the catch clause of
\* tabscript() stored: no handler in between has consumed input or emitted output.
C17_PropagatesUnchanged ==
    (op = "parseMain" /\ ret.r = "throw" /\ ret.e.kind # "Error"
                     /\ (~Turn \/ ~options.recover)) =>
        /\ raised.r = "throw" /\ ret.e = raised.e
        /\ CurState = [raised.s EXCEPT !.errors = Append(@, ret.e)]

\* C17 witness: a syntax error raised in a statement under recoverErrors, with
\* recovery disabled, has reached tabscript(); output had been emitted before it.
C17_Witness ==
    /\ op = "parseMain" /\ ret.r = "throw" /\ ret.e.kind = "syntax"
    /\ ~options.recover /\ pre.inPos > 0
    /\ Len(outTokens) > Len(pre.outTokens)
    /\ errors = <<ret.e>>

\* C18: in the map that getResult returns, in and out have the same length.
C18_MapParallel ==
    Returned => Len(ret.v.map.in) = Len(ret.v.map.out)

\* C18 witness: a map of more than one pair.
C18_Witness ==
    Returned /\ Len(ret.v.map.in) > 1 /\ Len(ret.v.map.out) > 1

NonDecreasing(seq) == \A i \in 1..Len(seq) : \A j \in i..Len(seq) : seq[i] <= seq[j]

\* C19: in the map that getResult returns, in and out are both non-decreasing.
C19_MapMonotone ==
    Returned => (NonDecreasing(ret.v.map.in) /\ NonDecreasing(ret.v.map.out))

\* C19 witness: a map of three pairs or more whose offsets grow.
C19_Witness ==
    /\ Returned /\ Len(ret.v.map.in) >= 3
    /\ ret.v.map.in[1] < ret.v.map.in[Len(ret.v.map.in)]
    /\ ret.v.map.out[1] < ret.v.map.out[Len(ret.v.map.out)]

\* C20 as claimed: getResult() leaves every field of the State as it was, and a
\* second getResult() returns the same code and map.
C20_RenderReadsOnly ==
    Returned => (CurState = pre /\ getResult(CurState).v = ret.v)

\* C20 amended: getResult() leaves every field of the State as it was except the
\* line and column caches of getLineCol, which keep their entries and may gain more,
\* and a second getResult() returns the same code and map.
C20_RenderKeepsButCaches ==
    Returned =>
        /\ [CurState EXCEPT !.inPosLineCache = pre.inPosLineCache,
                            !.inPosColCache = pre.inPosColCache] = pre
        /\ IsPrefix(pre.inPosLineCache, inPosLineCache)
        /\ IsPrefix(pre.inPosColCache, inPosColCache)
        /\ getResult(CurState).v = ret.v

\* C20 witness: a getResult() that rendered tokens and added to the caches.
C20_Witness ==
    /\ Returned /\ outTokens # <<>>
    /\ Len(inPosLineCache) > Len(pre.inPosLineCache)

\* The shorter of two lengths.
Min(a, b) == IF a < b THEN a ELSE b

\* C21 as claimed: a call other than revert and revertOutput leaves the tokens that
\* were in the output stream where they were, and revert and revertOutput only
\* truncate the stream to the length a snapshot recorded: what remains is a prefix
\* of what was there.
C21_AppendOnly ==
    /\ op \notin {"new", "revert", "revertOutput"} => IsPrefix(pre.outTokens, outTokens)
    /\ op \in {"revert", "revertOutput"} =>
           /\ IsPrefix(outTokens, pre.outTokens)
           /\ \E h \in Handles :
                  snaps[h].live /\ Len(outTokens) = Min(snaps[h].outLength, Len(pre.outTokens))

\* A Text token that was appended after the snapshot of handle h was taken is in
\* the output stream.
TextSince(h) == \E i \in (snapAt[h].kept + 1)..Len(outTokens) : outTokens[i].str

RECURSIVE FirstTokenStart(_, _, _)
FirstTokenStart(results, k, p) ==
    IF k > Len(results) THEN Undefined
    ELSE IF Len(results[k]) > 0 THEN p
    ELSE FirstTokenStart(results, k + 1, WHITESPACE(p))

\* C23: a successful read with a non-empty match sets an unset outTargetPos to the
\* offset at which its first non-empty match starts, and no read changes an
\* outTargetPos that is set.
C23_TargetSetOnce ==
    op = "read" =>
        /\ pre.outTargetPos # Undefined => outTargetPos = pre.outTargetPos
        /\ (pre.outTargetPos = Undefined /\ ret.r = "ok"
              /\ FirstTokenStart(ret.v, 1, pre.inPos) # Undefined) =>
               outTargetPos = FirstTokenStart(ret.v, 1, pre.inPos)

\* C23 witness: a read whose first match was empty and was followed by whitespace
\* set outTargetPos to the start of its second match.
C23_Witness ==
    /\ op = "read" /\ ret.r = "ok" /\ Len(ret.v) = 2
    /\ pre.outTargetPos = Undefined
    /\ outTargetPos > pre.inPos

\* C23 witness of the other case: a read with two non-empty matches left the
\* outTargetPos alone that an earlier read had set.
C23_WitnessSet ==
    /\ op = "read" /\ ret.r = "ok" /\ Len(ret.v) = 2 /\ Len(ret.v[1]) > 0
    /\ pre.outTargetPos # Undefined
    /\ outTargetPos = pre.outTargetPos /\ outTargetPos < pre.inPos
C25_RecoverReturnsSuccess ==
    (Turn /\ options.recover /\ raised.r = "throw"
          /\ raised.e.kind \in {"syntax", "space", "version"}) =>
        ret.r = "ok"

\* The depth a consumer of the markers is at: the INDENTs it has consumed minus
\* the DEDENTs, which is indentLevel without the markers still pending.
Depth(s) ==
    s.indentLevel - Cardinality({i \in DOMAIN s.indentsPending : s.indentsPending[i] = "i"})
                  + Cardinality({i \in DOMAIN s.indentsPending : s.indentsPending[i] = "d"})

\* recoverErrors recovered from a ParseError of the function it wraps.
Recovered == op = "recoverErrors" /\ options.recover /\ raised.r = "throw" /\ ret.r = "ok"

\* C26: when recoverErrors recovers from a ParseError, its skip stops directly after
\* a newline, with as many INDENTs as DEDENTs consumed since recoverErrors was
\* entered: the depth is the one at which the failed item started.
C26_SkipStopsAtDepth ==
    Recovered => (inLastNewlinePos = inPos /\ Depth(CurState) = Depth(pre))

\* How parseGroup(opts, itemFunc) was opened: by the literal opts.open, by an INDENT.
LiteralOpen == Truthy(args[1].open) /\ read(pre, <<Lit(args[1].open.t)>>).r = "ok"
IndentOpen ==
    /\ LiteralOpen \/ args[1].allowImplicit
    /\ readIndent(IF LiteralOpen THEN read(pre, <<Lit(args[1].open.t)>>).s ELSE pre).r = "ok"

\* The input read last, whitespace behind it apart, is the text w.
JustRead(w) ==
    \E q \in (pre.inPos + Len(w))..inPos :
        /\ SubSeq(inData, q - Len(w) + 1, q) = w
        /\ \A k \in (q + 1)..inPos : inData[k] \in {" ", "\t"}

C27_WitnessAbsent ==
    /\ op = "parseGroup" /\ ret.r = "throw"
    /\ IndentOpen /\ ~LiteralOpen
    /\ Depth(CurState) = Depth(pre) + 1

\* The strings of the Text tokens the call has appended to the output stream.
TextsAppended ==
    LET new == SubSeq(outTokens, Len(pre.outTokens) + 1, Len(outTokens))
        texts == SelectSeq(new, LAMBDA tok : tok.str)
    IN  [i \in 1..Len(texts) |-> texts[i].t]

\* parseGroup returned success for a group with endNext = false, which emits
\* jsNext for a separator that is a line break only.
EndNextGroup == op = "parseGroup" /\ ret.r = "ok" /\ args[1].endNext = "false"

\* C28: with endNext = false the jsNext emitted for the last line break is removed:
\* the group's output never has jsNext directly before its closing text, and every
\* item but the last (each a single token) is followed by its jsNext.
C28_LastSeparatorSuppressed ==
    EndNextGroup =>
        LET T == TextsAppended
            n == Len(T)
        IN  /\ n >= 2
            /\ T[1] = args[1].jsOpen.t
            /\ T[n] = args[1].jsClose.t
            /\ T[n - 1] # args[1].jsNext.t
            /\ \A i \in 2..(n - 2) : T[i] # args[1].jsNext.t => T[i + 1] = args[1].jsNext.t

\* A group of two items on lines of their own: one separator kept, none before the close.
C28_Witness ==
    /\ EndNextGroup
    /\ TextsAppended = <<args[1].jsOpen.t, <<"b">>, args[1].jsNext.t, <<"c">>, args[1].jsClose.t>>

\* A group of three items: both separators between two items are kept.
C28_WitnessThree ==
    /\ EndNextGroup
    /\ TextsAppended = <<args[1].jsOpen.t, <<"b">>, args[1].jsNext.t, <<"c">>, args[1].jsNext.t,
                         <<"e">>, args[1].jsClose.t>>

\* The input the call has consumed, as indices of inData, and the `;` in it that
\* stand before a line break.
Consumed == (pre.inPos + 1)..inPos
Forced == {q \in Consumed : inData[q] = ";" /\ CharAt(WHITESPACE(q)) = "\n"}

\* The markers that lead from level a to level b.
Steps(a, b) == IF a < b THEN Markers("i", b - a) ELSE Markers("d", a - b)

\* The largest of a set of numbers.
Max(S) == CHOOSE x \in S : \A y \in S : y <= x

\* readNewline consumed one `;` before a line break: the level of the line the `;`
\* stands on, which is the level before the call unless the call consumed a line
\* break before the `;`, and the natural level of the line the call stopped at.
ForcedOnce == op = "readNewline" /\ ret.r = "ok" /\ Cardinality(Forced) = 1
OwnLevel ==
    LET q == CHOOSE q \in Forced : TRUE
        before == {n \in Consumed : n < q /\ inData[n] = "\n"}
    IN  IF before = {} THEN pre.indentLevel ELSE SkipWhile(Max(before), {"\t"}) - Max(before)
NaturalLevel ==
    LET last == Max({n \in Consumed : inData[n] = "\n"})
    IN  IF inPos >= Len(inData) THEN 0 ELSE SkipWhile(last, {"\t"}) - last

\* C29 as claimed: the markers for the natural indentation of the next line are
\* queued first and one additional INDENT after them, and indentLevel ends at
\* the natural level plus one.
C29_ForcedIndentLast ==
    ForcedOnce =>
        /\ indentsPending = Steps(pre.indentLevel, NaturalLevel) \o <<"i">>
        /\ indentLevel = NaturalLevel + 1

\* C29: when readNewline consumes a `;` before a line break, exactly one additional
\* INDENT is queued, behind the markers for the line the `;` stands on and in front
\* of the markers that lead from there to the natural indentation of the next
\* line; indentLevel ends at the natural level.
C29_ForcedIndentFirst ==
    ForcedOnce =>
        /\ indentsPending = Steps(pre.indentLevel, OwnLevel) \o <<"i">>
                                \o Steps(OwnLevel + 1, NaturalLevel)
        /\ indentLevel = NaturalLevel

\* The `;` stands on a line one level in, read in the same call, and the next line
\* is at level 0: an INDENT for the line, the additional one, two DEDENTs.
C29_Witness ==
    /\ ForcedOnce
    /\ pre.indentLevel = 0 /\ OwnLevel = 1 /\ NaturalLevel = 0
    /\ indentsPending = <<"i", "i", "d", "d">>

\* The next line is one level in: the additional INDENT is the only marker.
C29_WitnessDeeper ==
    /\ ForcedOnce
    /\ pre.indentLevel = 0 /\ NaturalLevel = 1
    /\ indentsPending = <<"i">>

\* readIndent() or readDedent() was called, for the marker Wanted; Queued is the
\* State with the markers it looked at: the State before the call, or the one
\* readNewline() made of it when none was pending.
MarkerRead == op \in {"readIndent", "readDedent"}
Wanted == IF op = "readIndent" THEN "i" ELSE "d"
Queued == IF pre.indentsPending # <<>> THEN pre ELSE readNewline(pre).s

\* C30: readIndent (readDedent) succeeds only if the head pending marker is an
\* INDENT (DEDENT) and removes exactly that marker; when it fails, inPos,
\* indentLevel, indentsPending and the newline sentinel are as before the call,
\* whatever readNewline had read.
C30_MarkerReadOrRevert ==
    MarkerRead =>
        /\ ret.r = "ok" =>
              /\ Queued.indentsPending # <<>>
              /\ Head(Queued.indentsPending) = Wanted
              /\ indentsPending = Tail(Queued.indentsPending)
              /\ <<inPos, indentLevel, inLastNewlinePos>>
                    = <<Queued.inPos, Queued.indentLevel, Queued.inLastNewlinePos>>
              /\ Depth(CurState) = Depth(pre) + (IF Wanted = "i" THEN 1 ELSE 0 - 1)
        /\ ret.r = "fail" => ScannerState(CurState) = ScannerState(pre)

\* readDedent failed after its readNewline had read a line break that queued an
\* INDENT: the scanner is back where it was.
C30_Witness ==
    /\ op = "readDedent" /\ ret.r = "fail"
    /\ pre.indentsPending = <<>>
    /\ readNewline(pre).r = "ok"
    /\ readNewline(pre).s.inPos > pre.inPos
    /\ readNewline(pre).s.indentsPending # <<>>
    /\ inPos = pre.inPos /\ indentsPending = <<>>

\* readIndent removed the first of several pending markers.
C30_WitnessHead ==
    /\ op = "readIndent" /\ ret.r = "ok"
    /\ Len(pre.indentsPending) >= 2
    /\ indentsPending = Tail(pre.indentsPending)

\* The statements after which parseStatement returns without a look at its output.
DeclarationWords == {Spell("if"), Spell("while"), Spell("for"), Spell("try"),
                     Spell("function"), Spell("async"), Spell("class"), Spell("abstract"),
                     Spell("interface"), Spell("switch"), Spell("enum"), Spell("declare")}
DeclarationAt(p) == \E w \in DeclarationWords : WordAt(p, w) # NoMatch

\* A turn of parseMain's loop parsed a statement that is no declaration, and the
\* Text tokens that were emitted for it.
Stated == Turn /\ raised.r = "ok" /\ ret.r = "ok" /\ ~DeclarationAt(pre.inPos)
TextEmitted == \E i \in (Len(pre.outTokens) + 1)..Len(outTokens) : outTokens[i].str

LessThanCall == op = "parseExpression" /\ pre.inPos = 0 /\ SubSeq(inData, 1, 2) = Spell("a<")
Closed == Len(inData) >= 4 /\ SubSeq(inData, 1, 4) = Spell("a<b>")
Follower == CharAt(WHITESPACE(4))

\* C32: the template arguments behind a primary expression are committed only if
\* `.`, `(` or a line break follows the closing `>` (in JS mode they are then
\* stripped); in every other case the `<` is parsed as the less-than operator,
\* from the State as it was before the `<`.
C32_TemplateOrLessThan ==
    LessThanCall =>
        /\ ret.r = "ok"
        /\ IF Closed /\ Follower \in {".", "(", "\n", ""}
           THEN options.js => TextsAppended[2] # <<"<">>
           ELSE TextsAppended[2] = <<"<">> /\ inPos = Len(inData)

\* parseMethod was called in JavaScript mode, not as a type-only signature, on a
\* constructor that declares the parameter property x, and accepted it.
ConstructorCall ==
    /\ op = "parseMethod" /\ pre.inPos = 0 /\ ~args[1] /\ options.js /\ ret.r = "ok"
    /\ Len(inData) >= 21 /\ SubSeq(inData, 1, 21) = Spell("constructor|public x|")

\* The places of the Text tokens `this.x=x;` among the texts the call appended.
Assignments == {i \in 1..Len(TextsAppended) : TextsAppended[i] = Spell("this.x=x;")}

\* C33: the constructor emitted for a parameter property x holds the assignment
\* this.x=x; exactly once: right after the opening brace of the body when the
\* class is not derived, and right after the super(...) statement when it is.
C33_PropertyAssignedOnce ==
    ConstructorCall =>
        /\ Cardinality(Assignments) = 1
        /\ \A i \in Assignments :
              /\ i > 1
              /\ IF args[2]
                 THEN /\ TextsAppended[i - 1] = <<";">>
                      /\ \E j \in 1..(i - 1) : TextsAppended[j] = Spell("super")
                 ELSE TextsAppended[i - 1] = <<"{">>

\* The statement parsed by this turn of parseMain starts with `import plugin`,
\* and it was parsed: options.loadPlugin is set and nothing was thrown.
PluginImported ==
    /\ Turn /\ raised.r = "ok" /\ ret.r = "ok"
    /\ Len(inData) >= pre.inPos + 13
    /\ SubSeq(inData, pre.inPos + 1, pre.inPos + 13) = Spell("import plugin")

\* C34: a plugin import that was parsed leaves the output tokens as they were
\* when its `import` keyword was reached.
C34_PluginImportSilent == PluginImported => outTokens = pre.outTokens

C34_Witness == PluginImported /\ pre.outTokens # <<>> /\ inData[inPos - 1] = "}"

\* What getResult() has rendered when it is through the first k output tokens.
Rendered(k) ==
    renderFrom([CurState EXCEPT !.outTokens = SubSeq(@, 1, k)], RenderStart).v.output

\* Output token k is a text that starts with a word character, and the last
\* character rendered before it is a word character.
WordMeetsWord(k) ==
    /\ outTokens[k].str /\ outTokens[k].t # <<>> /\ outTokens[k].t[1] \in IsWordChar
    /\ Rendered(k - 1) # <<>> /\ Rendered(k - 1)[Len(Rendered(k - 1))] \in IsWordChar

\* C35: when a text token that starts with a word character is rendered after
\* a word character, the renderer puts a space, tab or newline between the two.
C35_NoTokenFusion ==
    \A k \in 1..Len(outTokens) :
        WordMeetsWord(k) => Rendered(k)[Len(Rendered(k - 1)) + 1] \in {" ", "\t", "\n"}

C35_Witness ==
    /\ op = "getResult" /\ options.whitespace = "pretty"
    /\ \E k \in 1..Len(outTokens) : WordMeetsWord(k)

C35_WitnessPreserve ==
    /\ op = "getResult" /\ options.whitespace = "preserve"
    /\ \E k \in 1..Len(outTokens) :
          WordMeetsWord(k) /\ Len(Rendered(k)) = Len(Rendered(k - 1)) + 1 + Len(outTokens[k].t)

\* One iteration of the skip loop of recoverErrors, entered on s with input
\* left: the State and the level after it, and whether it left the loop, by
\* returning or by throwing.
SkipIteration(s, level, startPos) ==
    LET ind == readIndent(s)
        level1 == IF ind.r = "ok" THEN level + 1 ELSE level
        nl == readNewline(ind.s)
        ded == readDedent(nl.s)
        r1 == read(ded.s, <<IDENTIFIER>>)
        r2 == read(r1.s, <<STRING_RE>>)
        r3 == must(read(r2.s, <<ANYTHING>>))
        skip == IF r1.r = "ok" THEN r1 ELSE IF r2.r = "ok" THEN r2 ELSE r3
    IN  IF ind.r = "throw" THEN [left |-> TRUE, s |-> ind.s, level |-> level1]
        ELSE IF nl.r = "throw" THEN [left |-> TRUE, s |-> nl.s, level |-> level1]
        ELSE IF nl.r = "ok" /\ level1 <= 0 /\ nl.s.inPos > startPos
        THEN [left |-> TRUE, s |-> nl.s, level |-> level1]
        ELSE IF ded.r = "throw" THEN [left |-> TRUE, s |-> ded.s, level |-> level1]
        ELSE IF ded.r = "ok" THEN [left |-> FALSE, s |-> ded.s, level |-> level1 - 1]
        ELSE [left |-> skip.r = "throw", s |-> skip.s, level |-> level1]

\* The skip loop from s on, up to the iteration that leaves it or the first that
\* stalls: one that stays in the loop with inPos not advanced and no pending
\* marker removed.
RECURSIVE SkipEnd(_, _, _)
SkipEnd(s, level, startPos) ==
    IF ~hasMore(s) THEN [stalled |-> FALSE, s |-> s]
    ELSE LET it == SkipIteration(s, level, startPos)
             advanced == \/ it.s.inPos > s.inPos
                         \/ Len(it.s.indentsPending) < Len(s.indentsPending)
         IN  IF it.left THEN [stalled |-> FALSE, s |-> it.s]
             ELSE IF ~advanced THEN [stalled |-> TRUE, s |-> it.s]
             ELSE SkipEnd(it.s, it.level, startPos)

\* This turn of the statement loop caught an error and ran the skip loop.
Skipped == Turn /\ options.recover /\ raised.r = "throw" /\ raised.e.kind # "Error"

\* C36: a turn of the statement loop of parseMain that stays in the loop has
\* advanced inPos, and the skip loop of recoverErrors gets from the State the
\* error was raised in to the State the turn ends in by iterations that each
\* advance inPos or remove a pending indent marker, until one leaves the loop.
C36_LoopsAdvance ==
    /\ Turn => (ret.r = "throw" \/ inPos > pre.inPos)
    /\ Skipped =>
          LET end == SkipEnd(raised.s, raised.s.indentLevel - pre.indentLevel, pre.inPos)
          IN  ~end.stalled /\ ScannerState(end.s) = ScannerState(CurState)

C36_Witness ==
    /\ Skipped /\ ret.r = "ok" /\ hasMore(CurState)
    /\ raised.s.indentLevel > indentLevel /\ indentsPending = <<>>
    /\ inPos > raised.s.inPos + 1

C37_WitnessOutput ==
    /\ Turn /\ options.recover /\ options.js /\ pre.errors # <<>> /\ ret.r = "ok"
    /\ WordAt(pre.inPos, Spell("type")) # NoMatch
    /\ TextsAppended = <<>>

\* The mode driver has made its call in both modes: the State variables and ret
\* are those of JavaScript mode, pre and raised those of TypeScript mode.
BothModes == options.js /\ calls = 2

\* C38: a parser method leaves the scanner where it leaves it in the other mode,
\* and returns or throws as it does in the other mode, the error at the same
\* offset.
C38_ModesAgree ==
    BothModes =>
        /\ ScannerState(CurState) = ScannerState(pre)
        /\ ret.r = raised.r
        /\ ret.e = raised.e

\* What the last call added to the number of INDENTs read less the number of
\* DEDENTs read.
DepthStep ==
    IF op = "readIndent" /\ ret.r = "ok" THEN 1
    ELSE IF op = "readDedent" /\ ret.r = "ok" THEN 0 - 1
    ELSE 0

\* C39: indentLevel less the pending INDENT markers plus the pending DEDENT
\* markers starts at 0, goes up by one with every INDENT read, down by one with
\* every DEDENT read and is left alone by every other call, so it is the number
\* of INDENTs read less the number of DEDENTs read; it is never negative, and
\* neither is indentLevel.
C39_DepthCountsMarkers ==
    /\ indentLevel >= 0
    /\ Depth(CurState) >= 0
    /\ Depth(CurState) = Depth(pre) + DepthStep
    /\ op = "new" => Depth(CurState) = 0

\* A DEDENT was read that closes the one level an INDENT read before had opened.
C39_Witness ==
    /\ op = "readDedent" /\ ret.r = "ok"
    /\ Depth(pre) = 1 /\ Depth(CurState) = 0 /\ indentLevel = 0

\* A line break queued a marker: indentLevel moved, the depth did not.
C39_WitnessQueued ==
    /\ op = "readNewline" /\ ret.r = "ok"
    /\ indentLevel = pre.indentLevel + 1 /\ Len(indentsPending) = Len(pre.indentsPending) + 1

\* The source offsets in the source map getResult() makes of a token stream.
MapIn(tokens) == getResult([CurState EXCEPT !.outTokens = tokens]).v.map.in

\* The last call was an emit of one text with a position mark in front of it,
\* in no-map mode (emit(true, text): outTargetPos is kept for the next token)
\* or in normal mode (outTargetPos is used up).
MarkEmitted ==
    /\ op = "emit" /\ pre.outTargetPos # Undefined
    /\ Len(outTokens) = Len(pre.outTokens) + 2
NoMapEmit == MarkEmitted /\ outTargetPos = pre.outTargetPos
NormalEmit == MarkEmitted /\ outTargetPos = Undefined

\* C40: a text emitted with a no-map mark adds no entry to the source map,
\* whatever the offset p >= 0 of the mark; a text emitted with a normal mark
\* for offset p adds the entry with in = p.
C40_NoMapMarkUnmapped ==
    /\ NoMapEmit => MapIn(outTokens) = MapIn(pre.outTokens)
    /\ NormalEmit => MapIn(outTokens) = Append(MapIn(pre.outTokens), pre.outTargetPos)

====
